---- MODULE Spec2Model ----
(***************************************************************************)
(* FactorioCalc: the linear-system solver (factoriocalc/solver.py) over    *)
(* the exact rational type of factoriocalc/fracs.py.                       *)
(*                                                                         *)
(* A Solver is constructed on a LinearEqSystem, reset() simplifies it and  *)
(* builds the Tableau, solve() drains the objective tiers through the      *)
(* simplex loop of Tableau.max, solution() reads the result.  The loops    *)
(* of Tableau.solveAll / Tableau.solve / Tableau.max advance one           *)
(* iteration per step; pc is the position in them.                         *)
(***************************************************************************)
EXTENDS Integers, Sequences, FiniteSets, TLC

VARIABLES
    cfg,            \* ambient configuration: fracs.assume_positive_zero, fracs.allow_nans
    lastCall,       \* history: the arithmetic of the solver's last step, with its inputs
    leqs,           \* Solver.leqs: the LinearEqSystem handed to Solver()
    pc,             \* position of the caller / of solveAll, solve and max
    err,            \* the exception that ended the run ("none" while there is none)
    eqs,            \* Solver.eqs (rows kept by reset())
    subs,           \* Solver.subs: ordered <<var, terms>>
    invalidEqs,     \* Solver._invalidEqs
    result,         \* Solver._result
    cols,           \* Tableau.cols
    tableau,        \* Tableau.tableau: constraint rows, then objective rows
    basic,          \* Tableau.basic: basic column of each constraint row
    zeroed,         \* Tableau.zeroed
    clearedCache,   \* Tableau._cleared (<<>> stands for None)
    optFunBegin,    \* Tableau.optFunBegin
    optFunInfo,     \* Tableau.optFunInfo[optFunBegin:]  (label, note, terms, max)
    unboundedVars,  \* Tableau._unboundedVars
    pending,        \* Tableau.pendingObjectives
    saRes,          \* local res of solveAll
    saLoop,         \* which of the two loops of solveAll is running
    svRes,          \* local res of solve
    mxRes,          \* local res of max
    mxRow,          \* rowIdx argument of the running max
    throttle,       \* Machine.throttle of the machines of each variable of leqs.byVar
    applyRet,       \* what the calls of Solver.apply() returned, in order
    fracArgs,       \* the two operands handed to the functions of fracs.py
    fracRet,        \* the last call of a function of fracs.py: [op, value]
    hist            \* observations of the run, read by the properties only

vars == <<cfg, lastCall, leqs, pc, err, eqs, subs, invalidEqs, result, cols, tableau,
          basic, zeroed, clearedCache, optFunBegin, optFunInfo, unboundedVars,
          pending, saRes, saLoop, svRes, mxRes, mxRow, throttle, applyRet,
          fracArgs, fracRet, hist>>

(***************************************************************************)
(* Bounds of the model                                                     *)
(***************************************************************************)
MaxCoef == 1        \* rows of the generated systems have coefficients in -MaxCoef..MaxCoef
MaxRate == 1        \* and right-hand sides in 0..MaxRate
MaxSolves == 2      \* number of Solver.solve() calls made on one solver
MaxApplies == 2     \* number of Solver.apply() calls that follow them
MaxProducers == 3   \* producers of the pinned item in the generated producer systems
MaxExcess == 2      \* by how much the pinned rate exceeds the number of producers
MaxNum == 3         \* operands of the fracs.py functions have numerators in -MaxNum..MaxNum
MaxDen == 4         \* and denominators in 1..MaxDen

(***************************************************************************)
(* fracs.py: a value is <<numerator, denominator>>; an int n is <<n, 1>>,  *)
(* Inf is <<1, 0>>, -Inf is <<-1, 0>>, NaN is <<0, 0>>.  A raised          *)
(* exception travels through the pure operators as a value with a negative *)
(* second component and is turned into err by the step that meets it.      *)
(***************************************************************************)
Inf == <<1, 0>>
NaN == <<0, 0>>
NegInf == <<-1, 0>>
NotANumberError == <<0, -1>>
ZeroDivisionError == <<0, -2>>
KeyError == <<0, -3>>
ValueError == <<0, -4>>

I(n) == <<n, 1>>
IsErr(v) == v[2] < 0
IsNaN(v) == v = NaN
IsBad(v) == v[2] < 0 \/ v = NaN
ErrName(v) ==
    CASE v = NotANumberError -> "NotANumberError"
      [] v = ZeroDivisionError -> "ZeroDivisionError"
      [] v = KeyError -> "KeyError"
      [] OTHER -> "ValueError"

\* frac(num) for an int, a Frac or a NanType: "return num"
frac_num(num) == num

Abs(n) == IF n < 0 THEN -n ELSE n

RECURSIVE GcdNat(_, _)
GcdNat(a, b) == IF b = 0 THEN a ELSE GcdNat(b, a % b)
gcd(a, b) == GcdNat(Abs(a), Abs(b))

\* a _nan() that does not look at the switch
_nan_Always == NaN

_nan == IF cfg.allow_nans THEN NaN ELSE NotANumberError

\* the sum over the product of the denominators, not reduced
_add_Unreduced(na, da, nb, db) == <<na * db + da * nb, da * db>>

_add(na, da, nb, db) ==
    IF da = db
    THEN IF da = 0
         THEN (IF na = nb THEN <<na, 0>> ELSE <<0, 0>>)
         ELSE LET num == na + nb
                  den == da
              IN  IF den = 1 THEN <<num, den>>
                  ELSE LET g == gcd(num, den)
                       IN  IF g > 1 THEN <<num \div g, den \div g>> ELSE <<num, den>>
    ELSE LET g == gcd(da, db)
         IN  IF g <= 1 THEN <<na * db + da * nb, da * db>>
             ELSE LET s == da \div g
                      t == na * (db \div g) + nb * s
                      g2 == gcd(t, g)
                  IN  IF g2 = 1 THEN <<t, s * db>>
                      ELSE <<t \div g2, s * (db \div g2)>>

_mul(na, da, nb, db) ==
    LET g1 == gcd(na, db)
        na1 == IF g1 > 1 THEN na \div g1 ELSE na
        db1 == IF g1 > 1 THEN db \div g1 ELSE db
        g2 == gcd(nb, da)
        nb1 == IF g2 > 1 THEN nb \div g2 ELSE nb
        da1 == IF g2 > 1 THEN da \div g2 ELSE da
    IN  <<na1 * nb1, db1 * da1>>

\* a Frac whose denominator is 1: an int n is written <<n, 1>>, so the Frac
\* with the same pair is written apart from it
FracOne(n) == <<n, -5>>

\* tuple.__new__(Frac, pair)
tuple__new__(pair) == IF pair[2] = 1 THEN FracOne(pair[1]) ELSE pair

\* a result check that asks _nan() about every zero numerator
FracResult_AskOnZero(res) ==
    IF res[1] = 0 THEN _nan ELSE IF res[2] = 1 THEN res ELSE tuple__new__(res)

\* what the Frac operators do with the pair computed by _add / _mul
FracResult(res) ==
    IF res[2] = 1 THEN res
    ELSE IF res = <<0, 0>> THEN _nan
    ELSE tuple__new__(res)

IsInt(v) == v[2] = 1

Frac__add__(self, other) ==
    IF other[1] = 0 /\ other # NaN THEN self
    ELSE FracResult(_add(self[1], self[2], other[1], other[2]))

Frac__sub__(self, other) ==
    IF other[1] = 0 /\ other # NaN THEN self
    ELSE FracResult(_add(self[1], self[2], -other[1], other[2]))

Frac__rsub__(self, other) ==
    IF other[1] = 0 THEN tuple__new__(<<-self[1], self[2]>>)
    ELSE FracResult(_add(other[1], other[2], -self[1], self[2]))

Frac__mul__(self, other) ==
    IF other[2] = 1 /\ other = I(1) THEN self
    ELSE IF other[2] = 1 /\ other = I(0) /\ self[2] # 0 THEN other
    ELSE IF other[2] = 1 /\ other = I(-1) THEN tuple__new__(<<-self[1], self[2]>>)
    ELSE FracResult(_mul(self[1], self[2], other[1], other[2]))

\* a + b, a - b, a * b, -a, abs(a) on int / Frac / NaN operands
FAdd(a, b) ==
    IF IsErr(a) THEN a ELSE IF IsErr(b) THEN b
    ELSE IF IsNaN(a) \/ IsNaN(b) THEN NaN
    ELSE IF IsInt(a) /\ IsInt(b) THEN <<a[1] + b[1], 1>>
    ELSE IF ~IsInt(a) THEN Frac__add__(a, b)
    ELSE Frac__add__(b, a)

FSub(a, b) ==
    IF IsErr(a) THEN a ELSE IF IsErr(b) THEN b
    ELSE IF IsNaN(a) \/ IsNaN(b) THEN NaN
    ELSE IF IsInt(a) /\ IsInt(b) THEN <<a[1] - b[1], 1>>
    ELSE IF ~IsInt(a) THEN Frac__sub__(a, b)
    ELSE Frac__rsub__(b, a)

FMul(a, b) ==
    IF IsErr(a) THEN a ELSE IF IsErr(b) THEN b
    ELSE IF IsNaN(a) \/ IsNaN(b) THEN NaN
    ELSE IF IsInt(a) /\ IsInt(b) THEN <<a[1] * b[1], 1>>
    ELSE IF ~IsInt(a) THEN Frac__mul__(a, b)
    ELSE Frac__mul__(b, a)

FNeg(a) == IF IsBad(a) \/ a[1] = 0 THEN a ELSE <<-a[1], a[2]>>

FAbs(a) == IF IsBad(a) \/ a[1] >= 0 THEN a ELSE <<-a[1], a[2]>>

\* the sign the comparison operators of Frac test: numerator of self - other
CmpNum(a, b) ==
    IF IsInt(a) /\ IsInt(b) THEN a[1] - b[1]
    ELSE IF b[1] = 0 THEN a[1]
    ELSE _add(a[1], a[2], -b[1], b[2])[1]

FLt(a, b) == CmpNum(a, b) < 0
FLe(a, b) == CmpNum(a, b) <= 0
FGt(a, b) == CmpNum(a, b) > 0
FGe(a, b) == CmpNum(a, b) >= 0

FMax(a, b) == IF FGt(b, a) THEN b ELSE a      \* max(a, b)
FMin(a, b) == IF FLt(b, a) THEN b ELSE a      \* min(a, b)

isfinite(v) == v # NaN /\ v[2] # 0

div(num, den) ==
    IF IsErr(num) THEN num ELSE IF IsErr(den) THEN den
    ELSE IF IsNaN(num) \/ IsNaN(den) THEN _nan
    ELSE IF den[2] = 1 /\ den = I(1) THEN num
    ELSE IF den[2] = 1 /\ den = I(0)
         THEN IF cfg.assume_positive_zero
              THEN (IF num[1] > 0 THEN Inf ELSE IF num[1] = 0 THEN NaN ELSE NegInf)
              ELSE IF cfg.allow_nans THEN NaN ELSE ZeroDivisionError
    ELSE IF den[2] = 1 /\ num[2] = 1
         THEN IF num[1] = 0 THEN num
              ELSE LET n1 == IF den[1] < 0 THEN -num[1] ELSE num[1]
                       d1 == IF den[1] < 0 THEN -den[1] ELSE den[1]
                       g == gcd(n1, d1)
                       n2 == IF g > 1 THEN n1 \div g ELSE n1
                       d2 == IF g > 1 THEN d1 \div g ELSE d1
                   IN  IF d2 = 1 THEN <<n2, 1>> ELSE tuple__new__(<<n2, d2>>)
    ELSE LET den_num == IF den[1] < 0 THEN -den[1] ELSE den[1]
             den_den == IF den[1] < 0 THEN -den[2] ELSE den[2]
         IN  FracResult(_mul(num[1], num[2], den_den, den_num))

\* frac(num, den) with an int or Frac den: "return div(frac(num), den)"
frac(num, den) == div(frac_num(num), den)

(***************************************************************************)
(* ordenum.py / SolveRes                                                   *)
(***************************************************************************)
UNSOLVED == "UNSOLVED"
NOOP == "NOOP"
OPTIMAL == "OPTIMAL"
UNIQUE == "UNIQUE"
MULTI == "MULTI"
OK == "OK"
PARTIAL == "PARTIAL"
UNBOUNDED == "UNBOUNDED"

SolveRes == {UNSOLVED, NOOP, OPTIMAL, UNIQUE, MULTI, OK, PARTIAL, UNBOUNDED}

\* SolveRes.<name>.value
Value(r) ==
    CASE r = UNSOLVED -> -2
      [] r = NOOP -> -1
      [] r = OPTIMAL -> 1
      [] r = UNIQUE -> 2
      [] r = MULTI -> 3
      [] r = OK -> 4
      [] r = PARTIAL -> 5
      [] r = UNBOUNDED -> 6

\* SolveRes(value): the member with that value
FromValue(v) == CHOOSE r \in SolveRes : Value(r) = v

\* an | that returns the smaller operand
Or_Min(a, b) == FromValue(IF Value(a) <= Value(b) THEN Value(a) ELSE Value(b))

\* OrdEnum.__or__ and OrdEnum.__and__
Or(a, b) == FromValue(IF Value(a) >= Value(b) THEN Value(a) ELSE Value(b))
And(a, b) == FromValue(IF Value(a) <= Value(b) THEN Value(a) ELSE Value(b))

\* OrdEnum.__lt__ and OrdEnum.__ge__
Lt(a, b) == Value(a) < Value(b)
Ge(a, b) == Value(a) >= Value(b)

ok(r) == Lt(r, PARTIAL)
notok(r) == Ge(r, PARTIAL)
failed(r) == Ge(r, UNBOUNDED)

IGNORE == -100

(***************************************************************************)
(* Cond: EQ, GE, LE applied as cond(x, y)                                  *)
(***************************************************************************)
EQ == "EQ"
GE == "GE"
LE == "LE"

CondHolds(cond, x, y) ==
    CASE cond = EQ -> x = y
      [] cond = GE -> FGe(x, y)
      [] cond = LE -> FLe(x, y)

(***************************************************************************)
(* Terms: a dict var -> rate in insertion order, kept as a sequence of     *)
(* <<var, rate>>.  Variables are the integers 1.., 0 is None.  A Terms     *)
(* value whose first entry carries an exception value means the operation  *)
(* raised it.                                                              *)
(***************************************************************************)
TRaise(e) == << <<0, e>> >>
TRaised(terms) == Len(terms) > 0 /\ IsErr(terms[1][2])

TIdx(terms, var) ==
    IF \E i \in 1..Len(terms) : terms[i][1] = var
    THEN CHOOSE i \in 1..Len(terms) : terms[i][1] = var
    ELSE 0

TGet(terms, var) == IF TIdx(terms, var) = 0 THEN I(0) ELSE terms[TIdx(terms, var)][2]

TPop(terms, var) ==
    LET k == TIdx(terms, var)
    IN  IF k = 0 THEN terms
        ELSE [i \in 1..(Len(terms) - 1) |-> IF i < k THEN terms[i] ELSE terms[i + 1]]

TSet(terms, var, rate) ==
    LET k == TIdx(terms, var)
    IN  IF k = 0 THEN Append(terms, <<var, rate>>)
        ELSE [terms EXCEPT ![k] = <<var, rate>>]

\* Terms.add
TermsAdd(terms, var, rate) ==
    IF TRaised(terms) THEN terms
    ELSE LET r == FAdd(TGet(terms, var), rate)
         IN  IF IsErr(r) THEN TRaise(r)
             ELSE IF IsNaN(r) THEN TRaise(ValueError)
             ELSE IF r = I(0)
                  THEN (IF TIdx(terms, var) = 0 THEN TRaise(KeyError) ELSE TPop(terms, var))
             ELSE TSet(terms, var, r)

\* Terms.merge (other: a sequence of terms)
RECURSIVE MergeFrom(_, _, _, _)
MergeFrom(terms, other, mul, i) ==
    IF i > Len(other) \/ TRaised(terms) THEN terms
    ELSE MergeFrom(TermsAdd(terms, other[i][1], FMul(mul, other[i][2])), other, mul, i + 1)

TermsMerge(terms, other, mul) == MergeFrom(terms, other, mul, 1)

\* Terms(iterable of term tuples): Terms.__init__ merging each in turn
RECURSIVE TermsOfAll(_, _, _)
TermsOfAll(acc, seqs, i) ==
    IF i > Len(seqs) THEN acc ELSE TermsOfAll(TermsMerge(acc, seqs[i], I(1)), seqs, i + 1)

TermsOf(terms) == TermsMerge(<<>>, terms, I(1))

\* Terms.sub
TermsSub(terms, var, repl) ==
    IF TRaised(terms) THEN terms
    ELSE LET factor == TGet(terms, var)
         IN  IF factor = I(0) THEN terms
             ELSE TermsMerge(TPop(terms, var), repl, factor)

\* dict lookup on an ordered <<key, value>> sequence
DHas(d, k) == \E i \in 1..Len(d) : d[i][1] = k
DGet(d, k) == d[CHOOSE i \in 1..Len(d) : d[i][1] = k][2]
DSet(d, k, v) ==
    IF DHas(d, k) THEN [i \in 1..Len(d) |-> IF d[i][1] = k THEN <<k, v>> ELSE d[i]]
    ELSE Append(d, <<k, v>>)
DDel(d, k) == SelectSeq(d, LAMBDA e : e[1] # k)

\* Terms.subAll
RECURSIVE SubAllFrom(_, _, _, _)
SubAllFrom(terms, keys, repl, i) ==
    IF i > Len(keys) THEN terms
    ELSE SubAllFrom(TermsSub(terms, keys[i], DGet(repl, keys[i])), keys, repl, i + 1)

TermsSubAll(terms, repl) ==
    LET present == SelectSeq(terms, LAMBDA t : DHas(repl, t[1]))
        keys == [i \in 1..Len(present) |-> present[i][1]]
    IN  SubAllFrom(terms, keys, repl, 1)

\* Terms.neg
TermsNeg(terms) == [i \in 1..Len(terms) |-> <<terms[i][1], FNeg(terms[i][2])>>]

\* Terms.__itruediv__
TermsDiv(terms, other) ==
    LET res == [i \in 1..Len(terms) |-> <<terms[i][1], div(terms[i][2], other)>>]
    IN  IF \E i \in 1..Len(res) : IsErr(res[i][2])
        THEN TRaise(res[CHOOSE i \in 1..Len(res) : IsErr(res[i][2])][2])
        ELSE res

\* Terms.apply() with no values: every variable at its max
RECURSIVE ApplyFrom(_, _, _, _)
ApplyFrom(terms, vmax, res, i) ==
    IF i > Len(terms) THEN res
    ELSE ApplyFrom(terms, vmax, FAdd(res, FMul(terms[i][2], vmax[terms[i][1]])), i + 1)

TermsApply(terms, vmax) == ApplyFrom(terms, vmax, I(0), 1)

(***************************************************************************)
(* _simplify.  An _Equation is [id, terms, cond, rhs] with rhs a Term      *)
(* <<var, rate>>; the id of an equation is its position in leqs.eqs, 0 for *)
(* None.  candidates maps a variable to ZERO, to None or to the position   *)
(* of the equation that may eliminate it.                                  *)
(***************************************************************************)
ZERO == 0
None == -1

\* first statement of _simplify: the private copy of leq.eqs
InitialEquations(leq) ==
    [k \in 1..Len(leq.eqs) |->
        [id |-> leq.eqs[k].id, terms |-> TermsOf(leq.eqs[k].terms),
         cond |-> leq.eqs[k].cond, rhs |-> <<0, leq.eqs[k].rate>>]]

posVars(terms) == SelectSeq(terms, LAMBDA t : FGt(t[2], I(0)))

\* a scan that takes no variable of an all-positive row to be zero
MarkZero_None(candidates, terms, i) == candidates

RECURSIVE MarkZero(_, _, _)
MarkZero(candidates, terms, i) ==
    IF i > Len(terms) THEN candidates
    ELSE MarkZero(DSet(candidates, terms[i][1], ZERO), terms, i + 1)

\* a scan that keeps the first equation that proposes a variable
ScanEquation_First(candidates, es, k) ==
    LET eq == es[k]
        pv == posVars(eq.terms)
    IN  IF eq.rhs[2] # I(0) THEN candidates
        ELSE IF (Len(pv) = Len(eq.terms) /\ eq.cond \in {EQ, LE})
                \/ (Len(pv) = 0 /\ eq.cond \in {EQ, GE})
             THEN MarkZero(candidates, eq.terms, 1)
        ELSE IF eq.cond = EQ /\ Len(pv) = 1 /\ ~DHas(candidates, pv[1][1])
             THEN DSet(candidates, pv[1][1], k)
        ELSE candidates

\* body of "for eq in eqs" that collects the candidates
ScanEquation(candidates, es, k) ==
    LET eq == es[k]
        pv == posVars(eq.terms)
        allPositive == Len(pv) = Len(eq.terms) /\ eq.cond \in {EQ, LE}
        allNegative == Len(pv) = 0 /\ eq.cond \in {EQ, GE}
    IN  IF eq.rhs[2] # I(0) THEN candidates
        ELSE IF allPositive \/ allNegative THEN MarkZero(candidates, eq.terms, 1)
        ELSE IF eq.cond = EQ /\ Len(pv) = 1
             THEN LET var == pv[1][1]
                  IN  IF ~DHas(candidates, var) THEN DSet(candidates, var, k)
                      ELSE IF DGet(candidates, var) # ZERO THEN DSet(candidates, var, None)
                      ELSE candidates
        ELSE candidates

RECURSIVE ScanFrom(_, _, _)
ScanFrom(candidates, es, k) ==
    IF k > Len(es) THEN candidates
    ELSE ScanFrom(ScanEquation(candidates, es, k), es, k + 1)

\* the candidates of one round, entries that are None deleted
Candidates(es) == SelectSeq(ScanFrom(<<>>, es, 1), LAMBDA c : c[2] # None)

\* "for eq2 in eqs: eq2.terms.sub(var, terms)"
SubInAll(es, var, terms) ==
    LET res == [k \in 1..Len(es) |-> [es[k] EXCEPT !.terms = TermsSub(es[k].terms, var, terms)]]
    IN  IF \E k \in 1..Len(res) : TRaised(res[k].terms)
        THEN [eqs |-> es,
              err |-> ErrName(res[CHOOSE k \in 1..Len(res) : TRaised(res[k].terms)].terms[1][2])]
        ELSE [eqs |-> res, err |-> "none"]

\* body of "for var, eq in candidates.items()"
Eliminate(es, var, c) ==
    IF c = ZERO
    THEN SubInAll(Append(es, [id |-> 0, terms |-> <<>>, cond |-> EQ, rhs |-> <<var, I(1)>>]),
                  var, <<>>)
    ELSE IF es[c].terms # <<>>
    THEN IF TIdx(es[c].terms, var) = 0
         THEN [eqs |-> es, err |-> "KeyError"]
         ELSE LET factor == FNeg(TGet(es[c].terms, var))
                  terms == TermsDiv(TPop(es[c].terms, var), factor)
              IN  IF TRaised(terms)
                  THEN [eqs |-> es, err |-> ErrName(terms[1][2])]
                  ELSE SubInAll([es EXCEPT ![c].terms = terms, ![c].rhs = <<var, I(1)>>],
                                var, terms)
    ELSE SubInAll([es EXCEPT ![c].rhs = <<var, I(1)>>], var, <<>>)

RECURSIVE EliminateFrom(_, _, _)
EliminateFrom(st, candidates, i) ==
    IF i > Len(candidates) \/ st.err # "none" THEN st
    ELSE EliminateFrom(Eliminate(st.eqs, candidates[i][1], candidates[i][2]), candidates, i + 1)

\* the "while True" loop
RECURSIVE SimplifyLoop(_)
SimplifyRound(st, candidates) ==
    IF st.err # "none" \/ candidates = <<>> THEN st
    ELSE SimplifyLoop(EliminateFrom(st, candidates, 1))

SimplifyLoop(st) == SimplifyRound(st, Candidates(st.eqs))

SimplifyFrom(es) ==
    IF \E k \in 1..Len(es) : TRaised(es[k].terms)
    THEN [eqs |-> es, err |-> "KeyError"]
    ELSE SimplifyLoop([eqs |-> es, err |-> "none"])

_simplify(leq) == SimplifyFrom(InitialEquations(leq))

(***************************************************************************)
(* Solver.reset, first half: the rows kept for the tableau, the            *)
(* substitutions and the invalid rows.                                     *)
(***************************************************************************)
\* a reset() that records an invalid row and leaves the result as it is
ResetRow_Keep(st, eq, vmax) ==
    IF eq.rhs[1] = 0
    THEN IF eq.terms # <<>>
         THEN IF eq.cond = GE /\ eq.rhs[2] = I(0)
                 /\ \A i \in 1..Len(eq.terms) : FGe(eq.terms[i][2], I(0))
              THEN st
              ELSE [st EXCEPT !.eqs = Append(@, [id |-> eq.id, terms |-> eq.terms,
                                                 cond |-> eq.cond, rate |-> eq.rhs[2]])]
         ELSE IF ~CondHolds(eq.cond, I(0), eq.rhs[2])
              THEN [st EXCEPT !.invalidEqs = Append(@, eq)]
              ELSE st
    ELSE LET var == eq.rhs[1]
             atMax == TermsApply(eq.terms, vmax)
             st1 == [st EXCEPT !.subs = DSet(@, var, eq.terms)]
         IN  IF vmax[var] = Inf THEN st1
             ELSE IF IsErr(atMax) THEN [st1 EXCEPT !.err = ErrName(atMax)]
             ELSE IF IsNaN(atMax) THEN [st1 EXCEPT !.err = "ValueError"]
             ELSE IF FGt(atMax, vmax[var])
                  THEN [st1 EXCEPT !.eqs = Append(@, [id |-> eq.id, terms |-> eq.terms,
                                                      cond |-> LE, rate |-> vmax[var]])]
             ELSE st1

\* body of "for eq in eqs" in reset(); st = [eqs, subs, invalidEqs, result, err]
ResetRow(st, eq, vmax) ==
    IF eq.rhs[1] = 0
    THEN IF eq.terms # <<>>
         THEN IF eq.cond = GE /\ eq.rhs[2] = I(0)
                 /\ \A i \in 1..Len(eq.terms) : FGe(eq.terms[i][2], I(0))
              THEN st
              ELSE [st EXCEPT !.eqs = Append(@, [id |-> eq.id, terms |-> eq.terms,
                                                 cond |-> eq.cond, rate |-> eq.rhs[2]])]
         ELSE IF ~CondHolds(eq.cond, I(0), eq.rhs[2])
              THEN [st EXCEPT !.invalidEqs = Append(@, eq), !.result = Or(@, PARTIAL)]
              ELSE st
    ELSE LET var == eq.rhs[1]
             atMax == TermsApply(eq.terms, vmax)
             st1 == [st EXCEPT !.subs = DSet(@, var, eq.terms)]
         IN  IF vmax[var] = Inf THEN st1
             ELSE IF IsErr(atMax) THEN [st1 EXCEPT !.err = ErrName(atMax)]
             ELSE IF IsNaN(atMax) THEN [st1 EXCEPT !.err = "ValueError"]
             ELSE IF FGt(atMax, vmax[var])
                  THEN [st1 EXCEPT !.eqs = Append(@, [id |-> eq.id, terms |-> eq.terms,
                                                      cond |-> LE, rate |-> vmax[var]])]
             ELSE st1

RECURSIVE ResetRowsFrom(_, _, _, _)
ResetRowsFrom(st, es, vmax, k) ==
    IF k > Len(es) \/ st.err # "none" THEN st
    ELSE ResetRowsFrom(ResetRow(st, es[k], vmax), es, vmax, k + 1)

\* the loop of reset() over the equations s = _simplify(self.leqs)
ResetRowsOf(s, vmax) ==
    ResetRowsFrom([eqs |-> <<>>, subs |-> <<>>, invalidEqs |-> <<>>,
                   result |-> UNSOLVED, err |-> s.err], s.eqs, vmax, 1)

ResetRows(leq) == ResetRowsOf(_simplify(leq), leq.vmax)

(***************************************************************************)
(* Solver.reset, second half: the objective tiers.  An OptFun is           *)
(* [terms, note]; a note is <<kind, n>>.                                   *)
(***************************************************************************)
OptFun(terms, note) == [terms |-> terms, note |-> note]

\* priorities[p][var] = direction for one term of a prioritised output
PrioTerm(priorities, p, term) ==
    LET inner == IF DHas(priorities, p) THEN DGet(priorities, p) ELSE <<>>
    IN  IF FGt(term[2], I(0)) THEN DSet(priorities, p, DSet(inner, term[1], 1))
        ELSE IF FLt(term[2], I(0)) /\ ~DHas(inner, term[1])
             THEN DSet(priorities, p, DSet(inner, term[1], -1))
        ELSE IF FLt(term[2], I(0)) THEN DSet(priorities, p, inner)
        ELSE priorities

RECURSIVE PrioTermsFrom(_, _, _, _)
PrioTermsFrom(priorities, p, terms, i) ==
    IF i > Len(terms) THEN priorities
    ELSE PrioTermsFrom(PrioTerm(priorities, p, terms[i]), p, terms, i + 1)

\* "for item, terms in self.leqs.outputs.items()"
RECURSIVE PrioOutputsFrom(_, _, _)
PrioOutputsFrom(priorities, leq, k) ==
    IF k > Len(leq.outputs) THEN priorities
    ELSE LET item == leq.outputs[k][1]
         IN  IF ~DHas(leq.outputPriorities, item) \/ DGet(leq.outputPriorities, item) <= IGNORE
             THEN PrioOutputsFrom(priorities, leq, k + 1)
             ELSE PrioOutputsFrom(PrioTermsFrom(priorities, DGet(leq.outputPriorities, item),
                                                leq.outputs[k][2], 1), leq, k + 1)

\* "for var, p in self.leqs.priorities.items()"
RECURSIVE PrioVarsFrom(_, _, _)
PrioVarsFrom(priorities, leq, k) ==
    IF k > Len(leq.priorities) THEN priorities
    ELSE LET var == leq.priorities[k][1]
             p == leq.priorities[k][2]
             inner == IF DHas(priorities, p) THEN DGet(priorities, p) ELSE <<>>
         IN  PrioVarsFrom(DSet(priorities, p, DSet(inner, var, 1)), leq, k + 1)

Priorities(leq) == PrioVarsFrom(PrioOutputsFrom(<<>>, leq, 1), leq, 1)

\* sorted(keys): the lowest priority first
RECURSIVE SortedReverse_Ascending(_)
SortedReverse_Ascending(S) ==
    IF S = {} THEN <<>>
    ELSE LET m == CHOOSE x \in S : \A y \in S : x <= y
         IN  <<m>> \o SortedReverse_Ascending(S \ {m})

\* sorted(keys, reverse = True)
RECURSIVE SortedReverse(_)
SortedReverse(S) ==
    IF S = {} THEN <<>>
    ELSE LET m == CHOOSE x \in S : \A y \in S : y <= x
         IN  <<m>> \o SortedReverse(S \ {m})

\* the one or two objectives of a priority level
PriorityObjectives(p, inner) ==
    LET toMax == SelectSeq(inner, LAMBDA e : e[2] > 0)
        toMin == SelectSeq(inner, LAMBDA e : ~(e[2] > 0))
        maxObj == <<OptFun([i \in 1..Len(toMax) |-> <<toMax[i][1], I(1)>>], <<"max", p>>)>>
                  \o [i \in 1..Len(toMax) |-> OptFun(<< <<toMax[i][1], I(1)>> >>, <<"var", toMax[i][1]>>)]
        minObj == <<OptFun([i \in 1..Len(toMin) |-> <<toMin[i][1], I(-1)>>], <<"min", p>>)>>
                  \o [i \in 1..Len(toMin) |-> OptFun(<< <<toMin[i][1], I(-1)>> >>, <<"var", toMin[i][1]>>)]
    IN  (IF toMax # <<>> THEN <<maxObj>> ELSE <<>>) \o (IF toMin # <<>> THEN <<minObj>> ELSE <<>>)

RECURSIVE PriorityTiersFrom(_, _, _)
PriorityTiersFrom(priorities, keys, i) ==
    IF i > Len(keys) THEN <<>>
    ELSE PriorityObjectives(keys[i], DGet(priorities, keys[i]))
         \o PriorityTiersFrom(priorities, keys, i + 1)

PriorityTiers(leq) ==
    LET priorities == Priorities(leq)
    IN  PriorityTiersFrom(priorities,
                          SortedReverse({priorities[i][1] : i \in 1..Len(priorities)}), 1)

\* the 'also-output' tier: outputs whose priority is IGNORE or lower
AlsoOutputTier(leq) ==
    LET sel == SelectSeq(leq.outputPriorities, LAMBDA e : e[2] <= IGNORE)
        alsoOutput == [i \in 1..Len(sel) |-> sel[i][1]]
        terms(item) == IF DHas(leq.outputs, item) THEN DGet(leq.outputs, item)
                       ELSE TRaise(KeyError)
    IN  IF alsoOutput = <<>> THEN <<>>
        ELSE << <<OptFun(TermsNeg(TermsOfAll(<<>>, [i \in 1..Len(alsoOutput) |-> terms(alsoOutput[i])], 1)),
                         <<"also-output", 0>>)>>
                \o [i \in 1..Len(alsoOutput) |->
                       OptFun(TermsNeg(TermsOf(terms(alsoOutput[i]))), <<"item", alsoOutput[i]>>)] >>

IsIgnoredInput(leq, item) ==
    DHas(leq.inputPriorities, item) /\ DGet(leq.inputPriorities, item) <= IGNORE

\* also[0].terms[term.var] = 1 for every positive term of the ignored inputs
RECURSIVE ProducersFrom(_, _, _)
ProducersFrom(acc, terms, i) ==
    IF i > Len(terms) THEN acc
    ELSE ProducersFrom(IF FGt(terms[i][2], I(0)) THEN DSet(acc, terms[i][1], I(1)) ELSE acc,
                       terms, i + 1)

RECURSIVE ProducersOfAll(_, _, _)
ProducersOfAll(acc, ins, k) ==
    IF k > Len(ins) THEN acc
    ELSE ProducersOfAll(ProducersFrom(acc, ins[k][2], 1), ins, k + 1)

\* the 'ignored-inputs' tier
IgnoredInputsTier(leq) ==
    LET ignoredInputs == SelectSeq(leq.inputs, LAMBDA e : IsIgnoredInput(leq, e[1]))
    IN  IF ignoredInputs = <<>> THEN <<>>
        ELSE << <<OptFun(ProducersOfAll(<<>>, ignoredInputs, 1), <<"ignored-inputs", 0>>)>>
                \o [i \in 1..Len(ignoredInputs) |->
                       OptFun(TermsOf(ignoredInputs[i][2]), <<"item", ignoredInputs[i][1]>>)] >>

\* the 'inputs' tier
InputsTier(leq) ==
    LET inputs == SelectSeq(leq.inputs, LAMBDA e : ~IsIgnoredInput(leq, e[1]))
    IN  IF inputs = <<>> THEN <<>>
        ELSE << <<OptFun(TermsOfAll(<<>>, [i \in 1..Len(inputs) |-> inputs[i][2]], 1),
                         <<"inputs", 0>>)>>
                \o [i \in 1..Len(inputs) |->
                       OptFun(TermsOf(inputs[i][2]), <<"item", inputs[i][1]>>)] >>

\* self.objectives: every tier with the substitutions applied
Objectives(leq, subs_) ==
    LET objectives == PriorityTiers(leq) \o AlsoOutputTier(leq)
                      \o IgnoredInputsTier(leq) \o InputsTier(leq)
    IN  [t \in 1..Len(objectives) |->
            [i \in 1..Len(objectives[t]) |->
                OptFun(TermsSubAll(objectives[t][i].terms, subs_), objectives[t][i].note)]]

\* the exception raised while the objectives are built, "none" if there is none
ObjectivesErr(objectives) ==
    IF \E t \in 1..Len(objectives) : \E i \in 1..Len(objectives[t]) :
           TRaised(objectives[t][i].terms)
    THEN LET t == CHOOSE t \in 1..Len(objectives) :
                      \E i \in 1..Len(objectives[t]) : TRaised(objectives[t][i].terms)
             i == CHOOSE i \in 1..Len(objectives[t]) : TRaised(objectives[t][i].terms)
         IN  ErrName(objectives[t][i].terms[1][2])
    ELSE "none"

(***************************************************************************)
(* Tableau.__init__.  A column is <<kind, n>>: <<"v", var>> for a Var,     *)
(* <<"s", row>> for SlackVar(row), <<"a", row>> for ArtificialVar(row),    *)
(* <<"p", row>> for PartialVar(row).  Rows and columns count from 1.       *)
(***************************************************************************)
VarCol(var) == <<"v", var>>
IsVar(col) == col[1] = "v"
IsArtificialVar(col) == col[1] \in {"a", "p"}      \* isinstance(col, ArtificialVar)

Index(seq, x) == CHOOSE i \in 1..Len(seq) : seq[i] = x
Contains(seq, x) == \E i \in 1..Len(seq) : seq[i] = x

RECURSIVE SumAbsFrom(_, _, _)
SumAbsFrom(terms, acc, i) ==
    IF i > Len(terms) THEN acc ELSE SumAbsFrom(terms, FAdd(acc, FAbs(terms[i][2])), i + 1)

RECURSIVE AppendNewCols(_, _, _)
AppendNewCols(cs, terms, i) ==
    IF i > Len(terms) THEN cs
    ELSE AppendNewCols(IF Contains(cs, VarCol(terms[i][1])) THEN cs
                       ELSE Append(cs, VarCol(terms[i][1])), terms, i + 1)

\* addEq(terms, minv, maxv); st = [cols, eqs, err], eqs the dict
\* frozenset(terms) -> (minv, maxv) in insertion order
addEq(st, terms, minv, maxv) ==
    LET factor0 == SumAbsFrom(terms, I(0), 1)
        factor == IF FLe(minv, I(0)) /\ maxv = Inf THEN FMul(factor0, I(-1)) ELSE factor0
        key == {<<terms[i][1], div(terms[i][2], factor)>> : i \in 1..Len(terms)}
        minv1 == div(minv, factor)
        maxv1 == div(maxv, factor)
        minv2 == IF FLt(factor, I(0)) THEN maxv1 ELSE minv1
        maxv2 == IF FLt(factor, I(0)) THEN minv1 ELSE maxv1
        cs == AppendNewCols(st.cols, terms, 1)
    IN  IF st.err # "none" THEN st
        ELSE IF factor0 = I(0) THEN [st EXCEPT !.cols = cs, !.err = "AssertionError"]
        ELSE IF \E t \in key : IsErr(t[2])
             THEN [st EXCEPT !.cols = cs, !.err = ErrName((CHOOSE t \in key : IsErr(t[2]))[2])]
        ELSE IF IsErr(minv1) THEN [st EXCEPT !.cols = cs, !.err = ErrName(minv1)]
        ELSE IF IsErr(maxv1) THEN [st EXCEPT !.cols = cs, !.err = ErrName(maxv1)]
        ELSE IF DHas(st.eqs, key)
             THEN LET orig == DGet(st.eqs, key)
                  IN  [st EXCEPT !.cols = cs,
                                 !.eqs = DSet(@, key, <<FMax(orig[1], minv2), FMin(orig[2], maxv2)>>)]
        ELSE [st EXCEPT !.cols = cs, !.eqs = Append(@, <<key, <<minv2, maxv2>> >>)]

\* "for eq in eqs0"
RECURSIVE AddEqsFrom(_, _, _)
AddEqsFrom(st, eqs0, k) ==
    IF k > Len(eqs0) THEN st
    ELSE LET eq == eqs0[k]
         IN  AddEqsFrom(CASE eq.cond = EQ -> addEq(st, eq.terms, eq.rate, eq.rate)
                          [] eq.cond = LE -> addEq(st, eq.terms, NegInf, eq.rate)
                          [] eq.cond = GE -> addEq(st, eq.terms, eq.rate, Inf),
                        eqs0, k + 1)

\* a tableau without the rows that bound the throttles
AddBoundsFrom_None(st, vmax, i) == st

\* "for var in cols: if var.max != Inf"
RECURSIVE AddBoundsFrom(_, _, _)
AddBoundsFrom(st, vmax, i) ==
    IF i > Len(st.cols) THEN st
    ELSE LET var == st.cols[i][2]
         IN  AddBoundsFrom(IF vmax[var] # Inf
                           THEN addEq(st, << <<var, I(1)>> >>, NegInf, vmax[var])
                           ELSE st, vmax, i + 1)

\* eql: the rows (terms, cond, rhs) made of one combined entry
EqlOf(entry) ==
    LET terms == entry[1]
        minv == entry[2][1]
        maxv == entry[2][2]
        terms0 == {<<t[1], FNeg(t[2])>> : t \in terms}
    IN  IF minv = maxv THEN << <<terms, EQ, minv>> >>
        ELSE (IF FGt(minv, NegInf) THEN << <<terms0, LE, FNeg(minv)>> >> ELSE <<>>)
             \o (IF FLt(maxv, Inf) THEN << <<terms, LE, maxv>> >> ELSE <<>>)

RECURSIVE EqlFrom(_, _)
EqlFrom(es, k) == IF k > Len(es) THEN <<>> ELSE EqlOf(es[k]) \o EqlFrom(es, k + 1)

RowsWithSlack(eql) == SelectSeq([r \in 1..Len(eql) |-> r], LAMBDA r : eql[r][2] = LE)
RowsWithArtificial(eql) ==
    SelectSeq([r \in 1..Len(eql) |-> r], LAMBDA r : FLt(eql[r][3], I(0)) \/ eql[r][2] = EQ)

SlackCols(eql) == [i \in 1..Len(RowsWithSlack(eql)) |-> <<"s", RowsWithSlack(eql)[i]>>]
ArtificialCols(eql) ==
    [i \in 1..Len(RowsWithArtificial(eql)) |->
        LET r == RowsWithArtificial(eql)[i]
        IN  IF eql[r][3] = I(0) THEN <<"a", r>> ELSE <<"p", r>>]

\* one constraint row of the initial tableau
InitialRow(eql, cs, r) ==
    LET terms == eql[r][1]
        rhs == eql[r][3]
        sign == IF FGe(rhs, I(0)) THEN I(1) ELSE I(-1)
    IN  [j \in 1..(Len(cs) + 1) |->
            IF j = Len(cs) + 1 THEN FMul(sign, rhs)
            ELSE IF IsVar(cs[j])
                 THEN (IF \E t \in terms : t[1] = cs[j][2]
                       THEN FMul(sign, (CHOOSE t \in terms : t[1] = cs[j][2])[2])
                       ELSE I(0))
            ELSE IF cs[j] = <<"s", r>> THEN sign
            ELSE IF IsArtificialVar(cs[j]) /\ cs[j][2] = r THEN I(1)
            ELSE I(0)]

InitialBasic(eql, cs, r) ==
    IF Contains(cs, <<"a", r>>) THEN <<"a", r>>
    ELSE IF Contains(cs, <<"p", r>>) THEN <<"p", r>>
    ELSE <<"s", r>>

(***************************************************************************)
(* Tableau methods, as operators on the record tb of the Tableau's fields  *)
(* [cols, tableau, basic, zeroed, cleared, optFunBegin, optFunInfo,        *)
(*  unboundedVars, err].  colsByVar[var] is Index(tb.cols, var).           *)
(***************************************************************************)
\* the list computed by cleared(): -2 all zero, -1 not cleared, else the row
ComputeCleared(tb) ==
    [c \in 1..Len(tb.cols) |->
        IF Contains(tb.basic, tb.cols[c])
        THEN CHOOSE r \in 1..Len(tb.basic) :
                 /\ tb.basic[r] = tb.cols[c]
                 /\ \A r2 \in 1..Len(tb.basic) : tb.basic[r2] = tb.cols[c] => r2 <= r
        ELSE IF \E r \in 1..Len(tb.basic) : tb.tableau[r][c] # I(0) THEN -1
        ELSE -2]

\* Tableau.cleared(): the cached list if there is one
cleared(tb) == IF tb.cleared # <<>> THEN tb.cleared ELSE ComputeCleared(tb)

\* an addObjective that leaves the new row as the terms give it
fixClearedCol_None(T, rowIdx, colIdx, row) == row

\* Tableau.fixClearedCol(rowIdx, colIdx, -1) applied to the row being added
fixClearedCol(T, rowIdx, colIdx, row) ==
    [j \in 1..Len(row) |-> FSub(row[j], FMul(row[colIdx], T[rowIdx][j]))]

RECURSIVE FixAllFrom(_, _, _, _, _)
FixAllFrom(T, cl, toClear, row, i) ==
    IF i > Len(toClear) THEN row
    ELSE FixAllFrom(T, cl, toClear, fixClearedCol(T, cl[toClear[i]], toClear[i], row), i + 1)

\* an addObjective that also enters the terms of zeroed columns
RECURSIVE ObjectiveRowFrom_All(_, _, _, _)
ObjectiveRowFrom_All(tb, entries, row, i) ==
    IF i > Len(entries) THEN row
    ELSE ObjectiveRowFrom_All(tb, entries,
                              [row EXCEPT ![entries[i][1]] = FNeg(entries[i][2])], i + 1)

\* "for var, rate in terms.items()" of addObjective; entries are
\* <<colIdx, rate>> of the terms whose variable has a column
RECURSIVE ObjectiveRowFrom(_, _, _, _)
ObjectiveRowFrom(tb, entries, row, i) ==
    IF i > Len(entries) THEN row
    ELSE ObjectiveRowFrom(tb, entries,
                          IF tb.zeroed[entries[i][1]] THEN row
                          ELSE [row EXCEPT ![entries[i][1]] = FNeg(entries[i][2])],
                          i + 1)

\* terms keyed by Var -> entries keyed by column ("except KeyError: continue")
ColEntries(cs, terms) ==
    LET present == SelectSeq(terms, LAMBDA t : Contains(cs, VarCol(t[1])))
    IN  [i \in 1..Len(present) |-> <<Index(cs, VarCol(present[i][1])), present[i][2]>>]

RowRaised(row) == \E j \in 1..Len(row) : IsErr(row[j])
RowErr(row) == ErrName(row[CHOOSE j \in 1..Len(row) : IsErr(row[j])])

\* Tableau.addObjective with the terms already keyed by column index
addObjective(tb, entries, terms, note, label) ==
    LET cl == cleared(tb)
        row0 == ObjectiveRowFrom(tb, entries, [j \in 1..(Len(tb.cols) + 1) |-> I(0)], 1)
        live == SelectSeq(entries, LAMBDA e : ~tb.zeroed[e[1]] /\ cl[e[1]] >= 0)
        toClear == [i \in 1..Len(live) |-> live[i][1]]
        row == FixAllFrom(tb.tableau, cl, toClear, row0, 1)
    IN  [tb EXCEPT !.cleared = cl,
                   !.tableau = Append(@, row),
                   !.optFunInfo = Append(@, [label |-> label, terms |-> terms,
                                             note |-> note, max |-> <<>>]),
                   !.err = IF @ # "none" THEN @
                           ELSE IF RowRaised(row) THEN RowErr(row) ELSE "none"]

\* Tableau.normalize
normalize(T, rowIdx, colIdx) ==
    LET r == T[rowIdx][colIdx]
    IN  IF r = I(1) THEN T
        ELSE IF r = I(0) THEN [T EXCEPT ![rowIdx] = [j \in 1..Len(@) |-> ZeroDivisionError]]
        ELSE [T EXCEPT ![rowIdx] = [j \in 1..Len(@) |-> div(@[j], r)]]

\* Tableau.clear
clear(tb, rowIdx, colIdx) ==
    LET T1 == normalize(tb.tableau, rowIdx, colIdx)
        T2 == [i \in 1..Len(T1) |->
                  IF i = rowIdx \/ T1[i][colIdx] = I(0) THEN T1[i]
                  ELSE [j \in 1..Len(T1[i]) |->
                           FSub(T1[i][j], FMul(T1[i][colIdx], T1[rowIdx][j]))]]
    IN  IF RowRaised(T1[rowIdx])
        THEN [tb EXCEPT !.cleared = <<>>, !.err = RowErr(T1[rowIdx])]
        ELSE [tb EXCEPT !.cleared = <<>>,
                        !.tableau = T2,
                        !.basic = [@ EXCEPT ![rowIdx] = tb.cols[colIdx]],
                        !.err = IF \E i \in 1..Len(T2) : RowRaised(T2[i])
                                THEN RowErr(T2[CHOOSE i \in 1..Len(T2) : RowRaised(T2[i])])
                                ELSE "none"]

\* Tableau.zeroCol
zeroCol(tb, colIdx) ==
    [tb EXCEPT !.tableau = [i \in 1..Len(@) |-> [@[i] EXCEPT ![colIdx] = I(0)]],
               !.zeroed = [@ EXCEPT ![colIdx] = TRUE]]

\* Tableau.ratios: <<row, ratio>> in row order
ratios(tb, colIdx) ==
    LET rows == SelectSeq([i \in 1..tb.optFunBegin |-> i],
                          LAMBDA i : /\ FGt(tb.tableau[i][colIdx], I(0))
                                     /\ FGe(div(tb.tableau[i][Len(tb.cols) + 1],
                                                tb.tableau[i][colIdx]), I(0)))
    IN  [k \in 1..Len(rows) |->
            <<rows[k], div(tb.tableau[rows[k]][Len(tb.cols) + 1], tb.tableau[rows[k]][colIdx])>>]

\* min(items, key = ratio): the first item whose ratio no later one undercuts
RECURSIVE MinFrom(_, _, _)
MinFrom(items, best, k) ==
    IF k > Len(items) THEN best
    ELSE MinFrom(items, IF FLt(items[k][2], best[2]) THEN items[k] ELSE best, k + 1)

\* a bestRow that takes the first row with a ratio, not the one with the least
bestRow_First(tb, colIdx) ==
    LET items == ratios(tb, colIdx)
    IN  IF items = <<>> THEN 0 ELSE items[1][1]

\* Tableau.bestRow: 0 stands for None
bestRow(tb, colIdx) ==
    LET items == ratios(tb, colIdx)
    IN  IF items = <<>> THEN 0 ELSE MinFrom(items, items[1], 2)[1]

\* a scan that keeps the last of the most negative entries
RECURSIVE ScanOpt_Last(_, _, _, _)
ScanOpt_Last(opt, col, val, j) ==
    IF j > Len(opt) - 1 THEN col
    ELSE IF FLt(opt[j], I(0)) /\ FLe(opt[j], val) THEN ScanOpt_Last(opt, j, opt[j], j + 1)
    ELSE ScanOpt_Last(opt, col, val, j + 1)

\* the scan "for j in range(0, len(opt) - 1)" of max: 0 stands for None
RECURSIVE ScanOpt(_, _, _, _)
ScanOpt(opt, col, val, j) ==
    IF j > Len(opt) - 1 THEN col
    ELSE IF FLt(opt[j], val) THEN ScanOpt(opt, j, opt[j], j + 1)
    ELSE ScanOpt(opt, col, val, j + 1)

EnteringCol(opt) == ScanOpt(opt, 0, I(0), 1)

\* cols once the slack and the artificial columns are appended
AllCols(vcols, eql) == vcols \o SlackCols(eql) \o ArtificialCols(eql)

\* the fields set by __init__ before the phase-1 objectives are added
BareTableau(eql, cs) ==
    [cols |-> cs,
     tableau |-> [r \in 1..Len(eql) |-> InitialRow(eql, cs, r)],
     basic |-> [r \in 1..Len(eql) |-> InitialBasic(eql, cs, r)],
     zeroed |-> [c \in 1..Len(cs) |-> FALSE],
     cleared |-> <<>>,
     optFunBegin |-> Len(eql),
     optFunInfo |-> <<>>,
     unboundedVars |-> <<>>,
     err |-> "none"]

\* objective1 (kind "a") and objective2 (kind "p"): {colIdx: -1}
Phase1Objective(cs, kind) ==
    LET sel == SelectSeq([c \in 1..Len(cs) |-> c], LAMBDA c : cs[c][1] = kind)
    IN  [i \in 1..Len(sel) |-> <<sel[i], I(-1)>>]

\* "if objective: self.addObjective(objective)"
AddPhase1(tb, objective) ==
    IF objective = <<>> THEN tb
    ELSE addObjective(tb, objective,
                      [i \in 1..Len(objective) |-> <<tb.cols[objective[i][1]], I(-1)>>],
                      <<"None", 0>>, "max")

TableauOf(eql, cs) ==
    AddPhase1(AddPhase1(BareTableau(eql, cs), Phase1Objective(cs, "a")),
              Phase1Objective(cs, "p"))

\* the part of __init__ after the loops over addEq; st = [cols, eqs, err]
TableauFrom(st) ==
    IF st.err # "none"
    THEN [cols |-> st.cols, tableau |-> <<>>, basic |-> <<>>, zeroed |-> <<>>,
          cleared |-> <<>>, optFunBegin |-> 0, optFunInfo |-> <<>>,
          unboundedVars |-> <<>>, err |-> st.err]
    ELSE TableauOf(EqlFrom(st.eqs, 1), AllCols(st.cols, EqlFrom(st.eqs, 1)))

\* Tableau(eqs, objectives): the fields after __init__
NewTableau(eqs0, vmax) ==
    TableauFrom(AddBoundsFrom(AddEqsFrom([cols |-> <<>>, eqs |-> <<>>, err |-> "none"],
                                         eqs0, 1), vmax, 1))

\* Tableau.solution(): [res, other], both in insertion order, as <<key, value>>
RECURSIVE BasicValuesFrom(_, _, _)
BasicValuesFrom(tb, sol, r) ==
    IF r > Len(tb.basic) THEN sol
    ELSE LET var == tb.basic[r]
             v == tb.tableau[r][Len(tb.cols) + 1]
         IN  BasicValuesFrom(tb,
                 IF IsVar(var) THEN [sol EXCEPT !.res = DSet(@, var[2], v)]
                 ELSE IF var[1] = "s" /\ FLt(v, I(0)) THEN [sol EXCEPT !.other = DSet(@, var, v)]
                 ELSE IF IsArtificialVar(var) THEN [sol EXCEPT !.other = DSet(@, var, v)]
                 ELSE sol,
                 r + 1)

TableauSolution(tb) ==
    LET vcols == SelectSeq(tb.cols, IsVar)
    IN  BasicValuesFrom(tb, [res |-> [i \in 1..Len(vcols) |-> <<vcols[i][2], I(0)>>],
                             other |-> <<>>], 1)

\* an inner loop that leaves out every variable that has no value yet
RECURSIVE BackSubFrom_Skip(_, _, _, _, _)
BackSubFrom_Skip(st, terms, solution, vmax, i) ==
    IF i > Len(terms) THEN st
    ELSE BackSubFrom_Skip(
             IF DHas(solution, terms[i][1])
             THEN [st EXCEPT !.rate = FAdd(@, FMul(terms[i][2], DGet(solution, terms[i][1])))]
             ELSE st,
             terms, solution, vmax, i + 1)

\* the inner loop of Solver.solution(): st = [rate, res]
RECURSIVE BackSubFrom(_, _, _, _, _)
BackSubFrom(st, terms, solution, vmax, i) ==
    IF i > Len(terms) THEN st
    ELSE LET v == terms[i][1]
             r == terms[i][2]
         IN  BackSubFrom(
                 IF DHas(solution, v) THEN [st EXCEPT !.rate = FAdd(@, FMul(r, DGet(solution, v)))]
                 ELSE IF isfinite(vmax[v]) THEN [st EXCEPT !.rate = FAdd(@, FMul(r, vmax[v]))]
                 ELSE [st EXCEPT !.res = Or(@, UNBOUNDED)],
                 terms, solution, vmax, i + 1)

\* "for var, terms in self.subs.items()"; st = [res, solution]
RECURSIVE SubsFrom(_, _, _, _)
SubsFrom(st, sbs, vmax, k) ==
    IF k > Len(sbs) THEN st
    ELSE LET b == BackSubFrom([rate |-> I(0), res |-> st.res], sbs[k][2], st.solution, vmax, 1)
         IN  SubsFrom([res |-> b.res, solution |-> DSet(st.solution, sbs[k][1], b.rate)],
                      sbs, vmax, k + 1)

\* a solution() that returns self._result without looking at "other"
SolverSolution_Trust(tb, result_, sbs, vmax) ==
    SubsFrom([res |-> result_, solution |-> TableauSolution(tb).res], sbs, vmax, 1)

\* Solver.solution(): [res, solution]
SolverSolution(tb, result_, sbs, vmax) ==
    LET ts == TableauSolution(tb)
        res0 == IF ok(result_) /\ \E i \in 1..Len(ts.other) : ts.other[i][2] # I(0)
                THEN PARTIAL ELSE result_
    IN  SubsFrom([res |-> res0, solution |-> ts.res], sbs, vmax, 1)

(***************************************************************************)
(* The state machine.                                                      *)
(***************************************************************************)
\* the fields of self.tableau in the current state
TB ==
    [cols |-> cols, tableau |-> tableau, basic |-> basic, zeroed |-> zeroed,
     cleared |-> clearedCache, optFunBegin |-> optFunBegin, optFunInfo |-> optFunInfo,
     unboundedVars |-> unboundedVars, err |-> "none"]

SetTB(tb) ==
    /\ cols' = tb.cols
    /\ tableau' = tb.tableau
    /\ basic' = tb.basic
    /\ zeroed' = tb.zeroed
    /\ clearedCache' = tb.cleared
    /\ optFunBegin' = tb.optFunBegin
    /\ optFunInfo' = tb.optFunInfo
    /\ unboundedVars' = tb.unboundedVars

tbVars == <<cols, tableau, basic, zeroed, clearedCache, optFunBegin, optFunInfo, unboundedVars>>
solverVars == <<eqs, subs, invalidEqs, result>>
localVars == <<saRes, saLoop, svRes, mxRes, mxRow>>
fracVars == <<fracArgs, fracRet>>

\* Solver.solution() in the current state
solution == SolverSolution(TB, result, subs, leqs.vmax)

\* an exception leaves the call
Raise(e) == pc' = "raised" /\ err' = e

\* the exception reset() raises, "none" if it returns
ResetErr(st, objectives, tb) ==
    IF st.err # "none" THEN st.err
    ELSE IF ObjectivesErr(objectives) # "none" THEN ObjectivesErr(objectives)
    ELSE tb.err

\* what reset() leaves: st from the loop over the equations, then
\* self.objectives and self.tableau
ResetTo(st, objectives, tb, e) ==
    /\ eqs' = st.eqs
    /\ subs' = st.subs
    /\ invalidEqs' = st.invalidEqs
    /\ result' = st.result
    /\ IF e # "none"
       THEN /\ Raise(e)
            /\ UNCHANGED <<tbVars, pending>>
       ELSE /\ SetTB(tb)
            /\ pending' = objectives
            /\ pc' = "solveAll"
            /\ err' = err

ResetWith(st, objectives, tb) == ResetTo(st, objectives, tb, ResetErr(st, objectives, tb))

ResetFrom(st) == ResetWith(st, Objectives(leqs, st.subs), NewTableau(st.eqs, leqs.vmax))

\* Solver.solve() on a fresh solver, first statement: self.reset()
Reset ==
    /\ pc = "new"
    /\ ResetFrom(ResetRows(leqs))
    /\ hist' = [hist EXCEPT !.solves = 1, !.simplified = _simplify(leqs).eqs]
    /\ lastCall' = <<"reset">>
    /\ UNCHANGED <<cfg, leqs, fracVars, throttle, applyRet, localVars>>

\* Solver.solve() on a solver that was solved before: no reset
SolveAgain ==
    /\ pc = "done"
    /\ hist.solves < MaxSolves
    /\ applyRet = <<>>
    /\ pc' = "solveAll"
    /\ hist' = [hist EXCEPT !.solves = @ + 1, !.pivoted = FALSE,
                            !.before = [tableau |-> tableau, cols |-> cols, basic |-> basic,
                                        solution |-> solution]]
    /\ lastCall' = <<>>
    /\ UNCHANGED <<cfg, leqs, fracVars, throttle, applyRet, err, solverVars, tbVars, pending, localVars>>

\* Tableau.solveAll: res = SolveRes.NOOP
SolveAllBegin ==
    /\ pc = "solveAll"
    /\ saRes' = NOOP
    /\ saLoop' = 1
    /\ pc' = "loop"
    /\ lastCall' = <<>>
    /\ UNCHANGED <<cfg, leqs, fracVars, throttle, applyRet, err, solverVars, tbVars, pending, svRes, mxRes, mxRow, hist>>

\* Tableau.solve(zero = True) up to its first call of max
SolveBegin(tb) ==
    LET rowIdx == tb.optFunBegin + 1
        opt == tb.tableau[rowIdx]
    IN  /\ SetTB(tb)
        /\ svRes' = IF Cardinality({j \in 1..Len(opt) : opt[j] # I(0)}) = 1
                    THEN UNIQUE ELSE OPTIMAL
        /\ mxRow' = rowIdx
        /\ mxRes' = NOOP
        /\ pc' = "main"
        /\ hist' = [hist EXCEPT !.seen = {<<tb.basic, tb.tableau>>}]

\* first loop of solveAll: an objective row is in the tableau already
SolveExisting ==
    /\ pc = "loop"
    /\ saLoop = 1
    /\ Len(tableau) > optFunBegin
    /\ SolveBegin(TB)
    /\ lastCall' = <<>>
    /\ UNCHANGED <<cfg, leqs, fracVars, throttle, applyRet, err, solverVars, pending, saRes, saLoop>>

\* the value of column c in the basic solution of tb
ColumnValue(tb, c) ==
    IF Contains(tb.basic, tb.cols[c])
    THEN tb.tableau[Index(tb.basic, tb.cols[c])][Len(tb.cols) + 1]
    ELSE I(0)

\* the artificial and partial columns of tb with their values
ArtificialValues(tb) ==
    LET sel == SelectSeq([c \in 1..Len(tb.cols) |-> c], LAMBDA c : IsArtificialVar(tb.cols[c]))
    IN  [i \in 1..Len(sel) |-> <<tb.cols[sel[i]], ColumnValue(tb, sel[i])>>]

\* first loop of solveAll is over
EnterSecondLoop ==
    /\ pc = "loop"
    /\ saLoop = 1
    /\ ~(Len(tableau) > optFunBegin)
    /\ saLoop' = 2
    /\ hist' = IF hist.solves = 1 THEN [hist EXCEPT !.phase1 = ArtificialValues(TB)] ELSE hist
    /\ lastCall' = <<>>
    /\ UNCHANGED <<cfg, leqs, fracVars, throttle, applyRet, pc, err, solverVars, tbVars, pending, saRes, svRes, mxRes,
                   mxRow>>

\* Tableau.addPendingObjective
RECURSIVE AddAuxFrom(_, _, _)
AddAuxFrom(tb, lst, i) ==
    IF i > Len(lst) THEN tb
    ELSE AddAuxFrom(addObjective(tb, ColEntries(tb.cols, lst[i].terms), lst[i].terms,
                                 lst[i].note, "aux"), lst, i + 1)

addPendingObjective(tb, lst) ==
    AddAuxFrom(addObjective(tb, ColEntries(tb.cols, lst[1].terms), lst[1].terms,
                            lst[1].note, "max"), lst, 2)

\* the tableau with the tier added: solve it, unless adding raised
SolveAdded(tb) ==
    IF tb.err # "none"
    THEN /\ Raise(tb.err)
         /\ SetTB(tb)
         /\ UNCHANGED <<svRes, mxRes, mxRow, hist>>
    ELSE /\ SolveBegin(tb)
         /\ err' = err

\* second loop of solveAll: the next pending tier is added, then solved
SolvePending ==
    /\ pc = "loop"
    /\ saLoop = 2
    /\ pending # <<>>
    /\ pending' = Tail(pending)
    /\ SolveAdded(addPendingObjective(TB, Head(pending)))
    /\ lastCall' = <<"addObjective", TB, Head(pending)>>
    /\ UNCHANGED <<cfg, leqs, fracVars, throttle, applyRet, solverVars, saRes, saLoop>>

\* hist.sel when max has made no selection since it was called
NoSelection == [tableau |-> <<>>, optFunBegin |-> 0, rowIdx |-> 0, col |-> 0, row |-> 0]

\* the column the scan of max ends on, 0 for None ("val == 0: break")
MaxCol == EnteringCol(tableau[mxRow])
InMax == pc \in {"main", "aux", "remax"}

\* the tableau after clear(row, col), or the exception clear raised
PivotTo(col, row, tb) ==
    /\ SetTB(tb)
    /\ IF tb.err # "none" THEN Raise(tb.err) ELSE pc' = pc /\ err' = err
    /\ hist' = [hist EXCEPT !.sel = [tableau |-> tableau, optFunBegin |-> optFunBegin,
                                     rowIdx |-> mxRow, col |-> col, row |-> row],
                            !.seen = @ \cup {<<tb.basic, tb.tableau>>},
                            !.revisit = @ \/ <<tb.basic, tb.tableau>> \in hist.seen,
                            !.pivoted = TRUE,
                            !.pivotedAfter = Len(hist.tiers)]

\* one iteration of the loop of max: clearCol finds a row and pivots on it
MaxPivot ==
    /\ InMax
    /\ MaxCol # 0
    /\ bestRow(TB, MaxCol) # 0
    /\ PivotTo(MaxCol, bestRow(TB, MaxCol), clear(TB, bestRow(TB, MaxCol), MaxCol))
    /\ mxRes' = Or(mxRes, OPTIMAL)
    /\ lastCall' = <<"clear", TB, mxRow>>
    /\ UNCHANGED <<cfg, leqs, fracVars, throttle, applyRet, solverVars, pending, saRes, saLoop, svRes, mxRow>>

\* one iteration of the loop of max: clearCol returns None
MaxUnbounded ==
    /\ InMax
    /\ MaxCol # 0
    /\ bestRow(TB, MaxCol) = 0
    /\ SetTB([zeroCol(TB, MaxCol) EXCEPT !.unboundedVars = Append(@, cols[MaxCol])])
    /\ mxRes' = Or(Or(mxRes, OPTIMAL), UNBOUNDED)
    /\ hist' = [hist EXCEPT !.sel = [tableau |-> tableau, optFunBegin |-> optFunBegin,
                                     rowIdx |-> mxRow, col |-> MaxCol, row |-> 0],
                            !.seen = {<<basic, tableau'>>},
                            !.zeroedIn = @ \cup {pc}]
    /\ lastCall' = <<"zeroCol", TB, mxRow>>
    /\ UNCHANGED <<cfg, leqs, fracVars, throttle, applyRet, pc, err, solverVars, pending, saRes, saLoop, svRes, mxRow>>

\* "i < len(self.optFunInfo) and self.optFunInfo[i].label == 'aux'"
IsAux(info, begin, i) == i <= begin + Len(info) /\ info[i - begin].label = "aux"

\* what solve does after a max other than the last: the next aux, or the re-max
NextMax(i) ==
    IF IsAux(optFunInfo, optFunBegin, i)
    THEN pc' = "aux" /\ mxRow' = i
    ELSE pc' = "remax" /\ mxRow' = optFunBegin + 1

\* "res |= self.max(rowIdx)": the first max of solve returns
MainReturn ==
    /\ pc = "main"
    /\ MaxCol = 0
    /\ svRes' = Or(svRes, mxRes)
    /\ NextMax(mxRow + 1)
    /\ mxRes' = NOOP
    /\ hist' = [hist EXCEPT !.seen = {<<basic, tableau>>},
                            !.sel = NoSelection,
                            !.mainMax = tableau[mxRow][Len(cols) + 1],
                            !.ors = [a |-> svRes, b |-> mxRes, out |-> Or(svRes, mxRes)]]
    /\ lastCall' = <<>>
    /\ UNCHANGED <<cfg, leqs, fracVars, throttle, applyRet, err, solverVars, tbVars, pending, saRes, saLoop>>

\* "res0 = self.max(i); assert(res0.ok()); self.optFunInfo[i].max = ..."
AuxReturn ==
    /\ pc = "aux"
    /\ MaxCol = 0
    /\ IF ~ok(mxRes)
       THEN /\ Raise("AssertionError")
            /\ UNCHANGED <<optFunInfo, mxRow, mxRes>>
       ELSE /\ optFunInfo' = [optFunInfo EXCEPT ![mxRow - optFunBegin].max =
                                                   tableau[mxRow][Len(cols) + 1]]
            /\ NextMax(mxRow + 1)
            /\ mxRes' = NOOP
            /\ err' = err
    /\ hist' = [hist EXCEPT !.seen = {<<basic, tableau>>}, !.sel = NoSelection]
    /\ lastCall' = <<>>
    /\ UNCHANGED <<cfg, leqs, fracVars, throttle, applyRet, solverVars, cols, tableau, basic, zeroed, clearedCache,
                   optFunBegin, unboundedVars, pending, saRes, saLoop, svRes>>

\* "res0 = self.max(rowIdx); assert(res0.ok())": the re-max returns
RemaxReturn ==
    /\ pc = "remax"
    /\ MaxCol = 0
    /\ IF ~ok(mxRes) THEN Raise("AssertionError") ELSE pc' = "commit" /\ err' = err
    /\ hist' = [hist EXCEPT !.sel = NoSelection]
    /\ lastCall' = <<>>
    /\ UNCHANGED <<cfg, leqs, fracVars, throttle, applyRet, solverVars, tbVars, pending, localVars>>

\* "delStop": the first row after rowIdx that is not an aux row
RECURSIVE DelStop(_, _, _)
DelStop(info, begin, i) == IF IsAux(info, begin, i) THEN DelStop(info, begin, i + 1) ELSE i

\* _multiDel(lst, idxsToDel) on a row or on cols
multiDel(lst, toClear) ==
    LET keep == SelectSeq([j \in 1..Len(lst) |-> j], LAMBDA j : j \notin toClear)
    IN  [k \in 1..Len(keep) |-> lst[keep[k]]]

\* a check that takes every tier with aux rows to be at all its maxima
Unique_True(info, begin, T, rhs) ==
    IF (begin + 2)..(DelStop(info, begin, begin + 2) - 1) # {} THEN "True" ELSE "None"

\* "unique" after the loop that compares every aux row with its recorded max
Unique(info, begin, T, rhs) ==
    LET auxRows == (begin + 2)..(DelStop(info, begin, begin + 2) - 1)
    IN  IF \E i \in auxRows : FGt(info[i - begin].max, T[i][rhs]) THEN "False"
        ELSE IF auxRows # {} THEN "True"
        ELSE "None"

\* a commit that zeroes no column
ToZero_None(cs, opt) == {}

\* the Var columns solve(zero = True) zeroes: non-zero entry in the objective row
ToZero(cs, opt) == {c \in 1..Len(cs) : IsVar(cs[c]) /\ opt[c] # I(0)}

\* the Var columns with a non-zero entry in the objective row
NonZeroCols(cs, opt) == {c \in 1..Len(cs) : IsVar(cs[c]) /\ opt[c] # I(0)}

\* the Var columns solve(zero = True) leaves alone although their variable
\* is at 0: not basic, entry 0 in the objective row
FreeCols(cs, bs, opt) == {c \in 1..Len(cs) : IsVar(cs[c]) /\ opt[c] = I(0) /\ ~Contains(bs, cs[c])}

\* a commit that deletes no column
ToClear_None(cs, zd, opt) == {}

\* the other columns solve(zero = True) deletes
ToClear(cs, zd, opt) == {c \in 1..Len(cs) : ~IsVar(cs[c]) /\ (zd[c] \/ opt[c] # I(0))}

\* "self.optFunInfo[i].max" of the n aux rows of the tier being solved
AuxMax(info, n) == [k \in 1..n |-> info[k + 1].max]

\* "self.tableau[i][-1]" of the n aux rows that follow the main row rowIdx
AuxEnd(T, rowIdx, n, rhs) == [k \in 1..n |-> T[rowIdx + k][rhs]]

\* the rest of Tableau.solve(zero = True) after the re-max, and the
\* "res |= self.solve(zero = True)" of solveAll that receives its result
Commit ==
    /\ pc = "commit"
    /\ LET rowIdx == optFunBegin + 1
           delStop == DelStop(optFunInfo, optFunBegin, rowIdx + 1)
           rhs == Len(cols) + 1
           unique == Unique(optFunInfo, optFunBegin, tableau, rhs)
           res == CASE unique = "True" -> Or(svRes, UNIQUE)
                    [] unique = "False" -> Or(svRes, OK)
                    [] OTHER -> svRes
           opt == tableau[rowIdx]
           toZero == ToZero(cols, opt)
           toClear == ToClear(cols, zeroed, opt)
           T1 == [i \in 1..Len(tableau) |->
                     [j \in 1..Len(tableau[i]) |-> IF j \in toZero THEN I(0) ELSE tableau[i][j]]]
           T2 == SelectSeq([i \in 1..Len(T1) |-> <<i, T1[i]>>],
                           LAMBDA e : e[1] < rowIdx \/ e[1] >= delStop)
       IN  /\ tableau' = [i \in 1..Len(T2) |-> multiDel(T2[i][2], toClear)]
           /\ cols' = multiDel(cols, toClear)
           /\ zeroed' = [c \in 1..Len(zeroed) |->
                            IF c \in toZero THEN TRUE
                            ELSE IF c \in toClear THEN FALSE ELSE zeroed[c]]
           /\ optFunInfo' = SubSeq(optFunInfo, delStop - optFunBegin, Len(optFunInfo))
           /\ svRes' = res
           /\ saRes' = Or(saRes, res)
           /\ hist' = [hist EXCEPT !.tiers = Append(@, [note |-> optFunInfo[1].note,
                                                        terms |-> optFunInfo[1].terms,
                                                        value |-> opt[rhs],
                                                        res |-> res,
                                                        first |-> svRes,
                                                        mainMax |-> hist.mainMax,
                                                        auxMax |-> AuxMax(optFunInfo, delStop - rowIdx - 1),
                                                        auxEnd |-> AuxEnd(tableau, rowIdx, delStop - rowIdx - 1, rhs),
                                                        zeroCols |-> NonZeroCols(cols, opt),
                                                        freeCols |-> FreeCols(cols, basic, opt)]),
                                   !.ors = [a |-> saRes, b |-> res, out |-> Or(saRes, res)]]
    /\ pc' = "loop"
    /\ lastCall' = <<>>
    /\ UNCHANGED <<cfg, leqs, fracVars, throttle, applyRet, err, solverVars, basic, clearedCache, optFunBegin,
                   unboundedVars, pending, saLoop, mxRes, mxRow>>

\* a solveAll that does not look at the uncleared columns
MultiIfUncleared_Skip(cl, res) == res

\* "if any(c == -1 for c in self.cleared()): res |= SolveRes.MULTI"
MultiIfUncleared(cl, res) ==
    IF \E c \in 1..Len(cl) : cl[c] = -1 THEN Or(res, MULTI) ELSE res

\* the end of solveAll, and "self._result |= ..." of Solver.solve that
\* receives its result
SolveAllEnd ==
    /\ pc = "loop"
    /\ saLoop = 2
    /\ pending = <<>>
    /\ LET cl == cleared(TB)
           res == MultiIfUncleared(cl, saRes)
       IN  /\ clearedCache' = cl
           /\ saRes' = res
           /\ result' = Or(result, res)
           /\ hist' = [hist EXCEPT !.saRet = Append(@, res),
                                   !.ors = [a |-> result, b |-> res, out |-> Or(result, res)]]
    /\ pc' = "done"
    /\ lastCall' = <<>>
    /\ UNCHANGED <<cfg, leqs, fracVars, throttle, applyRet, err, eqs, subs, invalidEqs, cols, tableau, basic, zeroed,
                   optFunBegin, optFunInfo, unboundedVars, pending, saLoop, svRes, mxRes, mxRow>>

(***************************************************************************)
(* Solver.apply().  leqs.byVar has one VarGroup per variable of the        *)
(* system, in the order of the variables.                                  *)
(***************************************************************************)
\* a setter that scales the throttle a machine has, as Group.adjThrottle does
SetThrottle_Adj(st, v, val) == [st EXCEPT !.throttle[v] = FMul(@, val)]

\* Machine.__setattr__('throttle', val): "val = frac(val); if val < 0: raise"
SetThrottle(st, v, val) ==
    IF FLt(frac_num(val), I(0)) THEN [st EXCEPT !.err = "ValueError"]
    ELSE [st EXCEPT !.throttle[v] = frac_num(val)]

\* "for var, grp in self.leqs.byVar.items():
\*      grp.setThrottle(solution.get(var, 1))"; st = [throttle, err]
RECURSIVE SetThrottlesFrom(_, _, _)
SetThrottlesFrom(st, sol, v) ==
    IF v > Len(st.throttle) \/ st.err # "none" THEN st
    ELSE SetThrottlesFrom(SetThrottle(st, v, IF DHas(sol, v) THEN DGet(sol, v) ELSE I(1)),
                          sol, v + 1)

\* the throttles after apply() and the exception that ended it, if any
ApplyThrottles(thr, s) ==
    IF failed(s.res) THEN [throttle |-> thr, err |-> "none"]
    ELSE SetThrottlesFrom([throttle |-> thr, err |-> "none"], s.solution, 1)

ApplyDone(s, st) ==
    /\ throttle' = st.throttle
    /\ IF st.err # "none"
       THEN Raise(st.err) /\ applyRet' = applyRet
       ELSE /\ applyRet' = Append(applyRet,
                                 [res |-> s.res, solution |-> s.solution,
                                  throttle |-> st.throttle,
                                  solver |-> <<eqs, subs, invalidEqs, result>>,
                                  tableau |-> TB])
            /\ pc' = pc
            /\ err' = err

ApplyTo(s) == ApplyDone(s, ApplyThrottles(throttle, s))

\* Solver.apply() on a solved system
Apply ==
    /\ pc = "done"
    /\ Len(applyRet) < MaxApplies
    /\ ApplyTo(solution)
    /\ lastCall' = <<>>
    /\ UNCHANGED <<cfg, leqs, fracVars, solverVars, tbVars, pending, localVars, hist>>

(***************************************************************************)
(* The systems the solver is run on.  A LinearEqSystem is                  *)
(* [vmax, eqs, outputs, inputs, priorities, outputPriorities,              *)
(*  inputPriorities]: vmax[var] is Var.max, the dicts are <<key, value>>   *)
(* sequences in insertion order.                                           *)
(***************************************************************************)
LinearEq(id, terms, cond, rate) == [id |-> id, terms |-> terms, cond |-> cond, rate |-> rate]

LinearEqSystem(vmax, es, outputs, inputs, priorities, outputPriorities, inputPriorities) ==
    [vmax |-> vmax, eqs |-> es, outputs |-> outputs, inputs |-> inputs,
     priorities |-> priorities, outputPriorities |-> outputPriorities,
     inputPriorities |-> inputPriorities]

\* two parallel unit-rate converters of one item whose output is pinned to 10
ScenarioA ==
    LinearEqSystem(<< Inf, Inf >>,
                   << LinearEq(1, << <<1, I(1)>>, <<2, I(1)>> >>, EQ, I(10)) >>,
                   << <<1, << <<1, I(1)>>, <<2, I(1)>> >>>> >>,
                   <<>>,
                   <<>>, <<>>, <<>>)

\* three throttled producers of one item whose output is pinned to 5
ScenarioB ==
    LinearEqSystem(<< I(1), I(1), I(1) >>,
                   << LinearEq(1, << <<1, I(1)>>, <<2, I(1)>>, <<3, I(1)>> >>, EQ, I(5)) >>,
                   << <<1, << <<1, I(1)>>, <<2, I(1)>>, <<3, I(1)>> >>>> >>,
                   <<>>,
                   <<>>, <<>>, <<>>)

\* one throttled machine between two pinned inputs: the row of the second
\* input has the terms of the bound row of the machine
MergedBound ==
    LinearEqSystem(<< I(1) >>,
                   << LinearEq(1, << <<1, I(-1)>> >>, EQ, I(-5)),
                      LinearEq(2, << <<1, I(1)>> >>, EQ, I(-2)) >>,
                   <<>>,
                   << <<1, << <<1, I(-1)>> >>>>, <<2, << <<1, I(1)>> >>>> >>,
                   <<>>, <<>>, <<>>)

\* two throttled machines, two conserved items and two pinned outputs that
\* cannot be met together; the second machine has a priority
ConflictingOutputs ==
    LinearEqSystem(<< I(1), I(1) >>,
                   << LinearEq(1, << <<1, I(1)>>, <<2, I(-1)>> >>, EQ, I(0)),
                      LinearEq(2, << <<1, I(1)>>, <<2, I(-1)>> >>, EQ, I(0)),
                      LinearEq(3, << <<1, I(1)>>, <<2, I(-1)>> >>, EQ, I(2)),
                      LinearEq(4, << <<1, I(-1)>>, <<2, I(1)>> >>, EQ, I(2)) >>,
                   << <<1, << <<1, I(1)>>, <<2, I(-1)>> >>>>, <<2, << <<1, I(-1)>>, <<2, I(1)>> >>>> >>,
                   <<>>,
                   << <<2, 1>> >>, <<>>, <<>>)

\* two degenerate rows (right-hand side 0) and one input to minimise
Degenerate ==
    LinearEqSystem(<< Inf, Inf, Inf, Inf, Inf >>,
                   << LinearEq(1, << <<1, I(-11)>>, <<2, I(-5)>>, <<3, I(18)>>, <<4, I(2)>> >>, LE, I(0)),
                      LinearEq(2, << <<1, I(4)>>, <<2, I(2)>>, <<3, I(-8)>>, <<4, I(-1)>>, <<5, I(19)>> >>, LE, I(0)) >>,
                   <<>>,
                   << <<1, << <<1, I(53)>>, <<2, I(41)>>, <<3, I(-204)>>, <<4, I(-20)>> >>>> >>,
                   <<>>, <<>>, <<>>)

\* two inputs whose flows cancel in the main objective of the inputs tier
UnboundedAux ==
    LinearEqSystem(<< Inf, Inf >>,
                   << LinearEq(1, << <<1, I(1)>>, <<2, I(-1)>> >>, LE, I(0)) >>,
                   <<>>,
                   << <<1, << <<2, I(1)>> >>>>, <<2, << <<2, I(-1)>> >>>> >>,
                   <<>>, <<>>, <<>>)

\* four machines, one unpinned output and one pinned input
UnboundedAuxBox ==
    LinearEqSystem(<< Inf, Inf, I(1), Inf >>,
                   << LinearEq(1, << <<1, I(3)>>, <<4, I(3)>> >>, EQ, I(-1)),
                      LinearEq(2, << <<2, I(-1)>>, <<3, I(-1)>>, <<4, I(1)>> >>, EQ, I(0)),
                      LinearEq(3, << <<1, I(-1)>>, <<2, I(1)>>, <<4, I(-2)>> >>, EQ, I(0)),
                      LinearEq(4, << <<1, I(2)>>, <<2, I(1)>>, <<4, I(-1)>> >>, GE, I(0)) >>,
                   << <<1, << <<1, I(2)>>, <<2, I(1)>>, <<4, I(-1)>> >>>> >>,
                   << <<2, << <<1, I(3)>>, <<4, I(3)>> >>>> >>,
                   <<>>, << <<1, 0>> >>, <<>>)

\* three throttled machines and two conserved items
ChainedSubstitution ==
    LinearEqSystem(<< I(1), I(1), I(1) >>,
                   << LinearEq(1, << <<1, I(1)>>, <<2, I(-1)>>, <<3, I(-1)>> >>, EQ, I(0)),
                      LinearEq(2, << <<1, I(-1)>>, <<2, I(1)>> >>, EQ, I(0)) >>,
                   <<>>,
                   <<>>,
                   <<>>, <<>>, <<>>)

\* one consumer of an item that is declared an output pinned to 5
PinnedConsumer ==
    LinearEqSystem(<< Inf >>,
                   << LinearEq(1, << <<1, I(-2)>> >>, EQ, I(5)) >>,
                   << <<1, << <<1, I(-2)>> >>>> >>,
                   <<>>,
                   <<>>, << <<1, 1>> >>, <<>>)

\* two substitutions whose variables have no column: x = y with y unbounded,
\* and a = b + c with b a throttled machine that is maximised and c a
\* throttled machine that is in no other row
MissingColumns ==
    LinearEqSystem(<< Inf, Inf, Inf, I(1), I(1) >>,
                   << LinearEq(1, << <<1, I(1)>>, <<2, I(-1)>> >>, EQ, I(0)),
                      LinearEq(2, << <<3, I(1)>>, <<4, I(-1)>>, <<5, I(-1)>> >>, EQ, I(0)),
                      LinearEq(3, << <<4, I(1)>> >>, LE, I(1)) >>,
                   <<>>,
                   <<>>,
                   << <<4, 1>> >>, <<>>, <<>>)

\* three throttled machines x, y, z with x + y <= 1 and x + z <= 1: y has
\* the higher priority, x and z share the lower one
LockedOutNamed ==
    LinearEqSystem(<< I(1), I(1), I(1) >>,
                   << LinearEq(1, << <<1, I(1)>>, <<2, I(1)>> >>, LE, I(1)),
                      LinearEq(2, << <<1, I(1)>>, <<3, I(1)>> >>, LE, I(1)) >>,
                   <<>>,
                   <<>>,
                   << <<2, 2>>, <<1, 1>>, <<3, 1>> >>, <<>>, <<>>)

\* three throttled machines with x = y, x = z and z = y: two rows propose
\* a substitution for x, one row proposes one for z
TwoProposals ==
    LinearEqSystem(<< I(1), I(1), I(1) >>,
                   << LinearEq(1, << <<1, I(1)>>, <<2, I(-1)>> >>, EQ, I(0)),
                      LinearEq(2, << <<1, I(1)>>, <<3, I(-1)>> >>, EQ, I(0)),
                      LinearEq(3, << <<3, I(1)>>, <<2, I(-1)>> >>, EQ, I(0)) >>,
                   <<>>,
                   <<>>,
                   << <<1, 1>> >>, <<>>, <<>>)

\* four throttled machines: a conserved item x + y - z - w = 0, a pinned
\* item z + w = 1, two priority levels and one input
AllTiers ==
    LinearEqSystem(<< I(1), I(1), I(1), I(1) >>,
                   << LinearEq(1, << <<1, I(1)>>, <<2, I(1)>>, <<3, I(-1)>>, <<4, I(-1)>> >>, EQ, I(0)),
                      LinearEq(2, << <<3, I(1)>>, <<4, I(1)>> >>, EQ, I(1)) >>,
                   <<>>,
                   << <<1, << <<3, I(-1)>> >>>> >>,
                   << <<1, 2>>, <<2, 1>> >>, <<>>, <<>>)

Scenarios ==
    {ScenarioA, ScenarioB, MergedBound, ConflictingOutputs, Degenerate,
     UnboundedAux, UnboundedAuxBox, ChainedSubstitution, PinnedConsumer,
     MissingColumns, LockedOutNamed, TwoProposals, AllTiers}

\* the generated systems: a throttled machine (variable 1, max 1) and an
\* unbounded one (variable 2), a row with a rate and the conservation row of
\* an internal item (= 0) over them, and one of two goals
Coefs == (0 - MaxCoef)..MaxCoef
Rates == 0..MaxRate

\* the terms of a row: a term is present only for a non-zero coefficient
RowTerms(c1, c2) ==
    SelectSeq(<< <<1, I(c1)>>, <<2, I(c2)>> >>, LAMBDA t : t[2] # I(0))

\* goal 1: the first machine has priority 2, the second priority 1
\* goal 2: both machines have priority 1 and the second one feeds on an input
Goals ==
    {[priorities |-> << <<1, 2>>, <<2, 1>> >>, inputs |-> <<>>],
     [priorities |-> << <<1, 1>>, <<2, 1>> >>, inputs |-> << <<1, << <<2, I(-1)>> >> >> >>]}

Family ==
    {LinearEqSystem(<<I(1), Inf>>,
                    <<LinearEq(1, RowTerms(r[1], r[2]), r[3], I(r[4])),
                      LinearEq(2, RowTerms(q[1], q[2]), EQ, I(0))>>,
                    <<>>, g.inputs, g.priorities, <<>>, <<>>) :
        r \in Coefs \X Coefs \X {EQ, GE, LE} \X Rates,
        q \in Coefs \X Coefs,
        g \in Goals}

\* n throttled producers (Var.max = 1, unit rate) of one item whose output
\* is pinned to rate: a box of n machines with outputs = {item: rate}
PinnedProducers(n, rate) ==
    LinearEqSystem([v \in 1..n |-> I(1)],
                   << LinearEq(1, [v \in 1..n |-> <<v, I(1)>>], EQ, I(rate)) >>,
                   << <<1, [v \in 1..n |-> <<v, I(1)>>]>> >>,
                   <<>>,
                   <<>>, <<>>, <<>>)

\* the producer systems whose pinned rate is above the number of producers
Overdriven ==
    {PinnedProducers(n, n + x) : n \in 1..MaxProducers, x \in 1..MaxExcess}

\* a system without priorities, outputs and inputs
NoGoal == [priorities |-> <<>>, inputs |-> <<>>]

\* the systems whose only row is c1*v1 + c2*v2 <= 0 with positive c1, c2,
\* over throttled or unbounded machines, without a goal or with one
ZeroRows ==
    {LinearEqSystem(vm,
                    <<LinearEq(1, << <<1, I(c[1])>>, <<2, I(c[2])>> >>, LE, I(0))>>,
                    <<>>, g.inputs, g.priorities, <<>>, <<>>) :
        vm \in {I(1), Inf} \X {I(1), Inf},
        c \in (1..MaxCoef) \X (1..MaxCoef),
        g \in Goals \cup {NoGoal}}

Systems == Scenarios \cup Family \cup Overdriven \cup ZeroRows


\* the state after Solver(leqs) for one of the systems of S
\* no function of fracs.py was called yet
NoCall == [op |-> "none", value |-> I(0)]

\* Solver(leqs) for a system of S
NewSolverOn(S) ==
    /\ leqs \in S
    /\ throttle = [v \in 1..Len(leqs.vmax) |-> I(1)]
    /\ applyRet = <<>>
    /\ lastCall = <<>>
    /\ pc = "new"
    /\ err = "none"
    /\ eqs = <<>>
    /\ subs = <<>>
    /\ invalidEqs = <<>>
    /\ result = UNSOLVED
    /\ cols = <<>>
    /\ tableau = <<>>
    /\ basic = <<>>
    /\ zeroed = <<>>
    /\ clearedCache = <<>>
    /\ optFunBegin = 0
    /\ optFunInfo = <<>>
    /\ unboundedVars = <<>>
    /\ pending = <<>>
    /\ saRes = NOOP
    /\ saLoop = 1
    /\ svRes = NOOP
    /\ mxRes = NOOP
    /\ mxRow = 0
    /\ hist = [solves |-> 0, sel |-> NoSelection, seen |-> {}, revisit |-> FALSE,
               simplified |-> <<>>, mainMax |-> I(0), phase1 |-> <<>>, pivoted |-> FALSE, pivotedAfter |-> 0, zeroedIn |-> {}, tiers |-> <<>>, saRet |-> <<>>,
               ors |-> [a |-> NOOP, b |-> NOOP, out |-> NOOP],
               before |-> [tableau |-> <<>>, cols |-> <<>>, basic |-> <<>>,
                           solution |-> [res |-> UNSOLVED, solution |-> <<>>]]]

\* the solver runs under the default switches of fracs.py
InitOn(S) ==
    /\ cfg = [assume_positive_zero |-> FALSE, allow_nans |-> FALSE]
    /\ fracArgs = <<I(0), I(0)>>
    /\ fracRet = NoCall
    /\ NewSolverOn(S)

Init == InitOn(Systems)

Next ==
    \/ Reset
    \/ SolveAgain
    \/ SolveAllBegin
    \/ SolveExisting
    \/ EnterSecondLoop
    \/ SolvePending
    \/ MaxPivot
    \/ MaxUnbounded
    \/ MainReturn
    \/ AuxReturn
    \/ RemaxReturn
    \/ Commit
    \/ SolveAllEnd
    \/ Apply

Spec == Init /\ [][Next]_vars

(***************************************************************************)
(* The solver under a changing ambient configuration: the switches of      *)
(* fracs.py are context variables that any code running between two steps  *)
(* of the solver can set.                                                  *)
(***************************************************************************)
\* assume_positive_zero.set(..) / allow_nans.set(..) by the caller
ChangeConfig ==
    /\ pc # "raised"
    /\ cfg' \in [assume_positive_zero : BOOLEAN, allow_nans : BOOLEAN] \ {cfg}
    /\ UNCHANGED <<lastCall, leqs, pc, err, solverVars, tbVars, pending, localVars,
                   throttle, applyRet, fracVars, hist>>

\* the systems solved under a changing configuration
ConfigSystems == Scenarios \cup Overdriven \cup ZeroRows

ConfigInit == InitOn(ConfigSystems)

ConfigNext ==
    \/ Next
    \/ ChangeConfig

ConfigSpec == ConfigInit /\ [][ConfigNext]_vars

(***************************************************************************)
(* The functions of fracs.py on their own: two operands and the ambient    *)
(* switches are drawn from bounded sets and frac, div, +, - and * are      *)
(* called on them.                                                         *)
(***************************************************************************)
\* the ints and the Fracs (lowest terms, denominator above 1) within the bounds
Finite ==
    {<<n, d>> : n \in (0 - MaxNum)..MaxNum, d \in 1..MaxDen} \ 
        {v \in ((0 - MaxNum)..MaxNum) \X (1..MaxDen) : v[2] > 1 /\ gcd(v[1], v[2]) # 1}

Operands == Finite \cup {Inf, NegInf, NaN}

\* no solver is run: its variables keep the values of a new Solver
FracInit ==
    /\ cfg \in [assume_positive_zero : BOOLEAN, allow_nans : BOOLEAN]
    /\ fracArgs \in Operands \X Operands
    /\ fracRet = NoCall
    /\ NewSolverOn({ScenarioA})

\* everything a call of a function of fracs.py leaves alone
calleeUnchanged == <<cfg, lastCall, leqs, pc, err, solverVars, tbVars, pending, localVars,
                     throttle, applyRet, fracArgs, hist>>

\* frac(num, den)
CallFrac ==
    /\ fracRet' = [op |-> "frac", value |-> frac(fracArgs[1], fracArgs[2])]
    /\ UNCHANGED calleeUnchanged

\* div(num, den)
CallDiv ==
    /\ fracRet' = [op |-> "div", value |-> div(fracArgs[1], fracArgs[2])]
    /\ UNCHANGED calleeUnchanged

\* a + b
CallAdd ==
    /\ fracRet' = [op |-> "+", value |-> FAdd(fracArgs[1], fracArgs[2])]
    /\ UNCHANGED calleeUnchanged

\* a - b
CallSub ==
    /\ fracRet' = [op |-> "-", value |-> FSub(fracArgs[1], fracArgs[2])]
    /\ UNCHANGED calleeUnchanged

\* a * b
CallMul ==
    /\ fracRet' = [op |-> "*", value |-> FMul(fracArgs[1], fracArgs[2])]
    /\ UNCHANGED calleeUnchanged

FracNext ==
    \/ CallFrac
    \/ CallDiv
    \/ CallAdd
    \/ CallSub
    \/ CallMul

FracSpec == FracInit /\ [][FracNext]_vars


(***************************************************************************)
(* Properties.                                                             *)
(***************************************************************************)
\* the value of a column in the basic solution of the tableau
ColValue(col) ==
    IF Contains(basic, col) THEN tableau[Index(basic, col)][Len(cols) + 1] ELSE I(0)

\* an objective's terms are keyed by Var, those of the phase-1 objectives of
\* __init__ (note None) by column
TermCol(note, key) == IF note[1] = "None" THEN key ELSE VarCol(key)

\* the objective function of a committed tier at the current basic solution;
\* a term whose variable has no column contributes nothing
RECURSIVE TierValueFrom(_, _, _)
TierValueFrom(note, terms, i) ==
    IF i > Len(terms) THEN I(0)
    ELSE FAdd(IF Contains(cols, TermCol(note, terms[i][1]))
              THEN FMul(terms[i][2], ColValue(TermCol(note, terms[i][1])))
              ELSE I(0),
              TierValueFrom(note, terms, i + 1))

TierValue(tier) == TierValueFrom(tier.note, tier.terms, 1)

\* C1: once a tier is committed by solve(zero = True), its objective function
\* keeps the optimum it was committed with: between the tiers of solveAll (the
\* run without the later tiers) and at the final solution, whatever the later
\* tiers pivoted
C1_TierOptimumKept ==
    pc \in {"loop", "done"} =>
        \A k \in 1..Len(hist.tiers) : TierValue(hist.tiers[k]) = hist.tiers[k].value

\* a later tier pivoted after a higher tier was committed with a non-zero optimum
C1_Witness ==
    /\ pc = "done"
    /\ Len(hist.tiers) >= 2
    /\ hist.tiers[1].value # I(0)
    /\ hist.pivotedAfter >= 1
    /\ TierValue(hist.tiers[1]) = hist.tiers[1].value

\* the sum of coefficient times value over the terms of a row
RECURSIVE RowSumFrom(_, _, _)
RowSumFrom(terms, sol, i) ==
    IF i > Len(terms) THEN I(0)
    ELSE FAdd(FMul(terms[i][2], DGet(sol, terms[i][1])), RowSumFrom(terms, sol, i + 1))

\* the conservation rows of the system: equality rows with right-hand side 0
\* whose variables all have a value in the map
ConservationRows(sol) ==
    {k \in 1..Len(leqs.eqs) :
        /\ leqs.eqs[k].cond = EQ
        /\ leqs.eqs[k].rate = I(0)
        /\ \A i \in 1..Len(leqs.eqs[k].terms) : DHas(sol, leqs.eqs[k].terms[i][1])}

\* C2: after Solver.solve(), whatever the result code, every conservation row
\* sums to exactly 0 over the values Solver.solution() returns
C2_ConservationExact ==
    pc = "done" =>
        \A k \in ConservationRows(solution.solution) :
            RowSumFrom(leqs.eqs[k].terms, solution.solution, 1) = I(0)

\* C3: whatever the result code, no throttle variable (Var.max = 1) has a
\* value above 1 in the map Solver.solution() returns, the back-substituted
\* variables included
C3_ThrottleAtMostOne ==
    pc = "done" =>
        \A i \in 1..Len(solution.solution) :
            leqs.vmax[solution.solution[i][1]] = I(1) => FLe(solution.solution[i][2], I(1))

\* C4: a second Solver.solve() on a solved system returns NOOP from solveAll,
\* performs no pivot, changes no entry of the tableau, and leaves the result
\* code and the values of Solver.solution() as they were
C4_SecondSolveNoop ==
    (pc = "done" /\ hist.solves >= 2) =>
        /\ hist.saRet[hist.solves] = NOOP
        /\ ~hist.pivoted
        /\ tableau = hist.before.tableau
        /\ cols = hist.before.cols
        /\ basic = hist.before.basic
        /\ solution = hist.before.solution

\* C5: Solver.solve() terminates: within one call of Tableau.max the loop
\* never comes back to a tableau (basis and entries) it has already been in,
\* from where the deterministic loop would repeat the same pivots forever
C5_MaxNeverRevisits == ~hist.revisit

\* the last selection of max: the objective row it scanned, and the rows that
\* qualify as pivot row for a column (positive coefficient, ratio >= 0)
SelOpt == hist.sel.tableau[hist.sel.rowIdx]
SelRhs(r) == hist.sel.tableau[r][Len(SelOpt)]
SelCoef(r, c) == hist.sel.tableau[r][c]
SelQualifies(r, c) == FGt(SelCoef(r, c), I(0)) /\ FGe(FMul(SelRhs(r), SelCoef(r, c)), I(0))

\* ratio of row r < ratio of row q, both qualifying, by cross-multiplication
SelRatioLt(r, q, c) == FLt(FMul(SelRhs(r), SelCoef(q, c)), FMul(SelRhs(q), SelCoef(r, c)))

\* C6: every selection of max is the deterministic one: the entering column
\* is the lowest-index column among those with the most negative entry of the
\* objective row, and the pivot row is the lowest-index row among the
\* qualifying rows of minimal ratio (none exactly when no row qualifies)
C6_DeterministicSelection ==
    hist.sel.col # 0 =>
        LET c == hist.sel.col
            rows == {r \in 1..hist.sel.optFunBegin : SelQualifies(r, c)}
        IN  /\ FLt(SelOpt[c], I(0))
            /\ \A j \in 1..(Len(SelOpt) - 1) : FGe(SelOpt[j], SelOpt[c])
            /\ \A j \in 1..(c - 1) : FGt(SelOpt[j], SelOpt[c])
            /\ hist.sel.row = 0 <=> rows = {}
            /\ hist.sel.row # 0 =>
                  /\ hist.sel.row \in rows
                  /\ \A r \in rows : ~SelRatioLt(r, hist.sel.row, c)
                  /\ \A r \in rows : r < hist.sel.row => SelRatioLt(hist.sel.row, r, c)

\* a selection where two columns tie for the most negative entry and two
\* qualifying rows tie for the minimal ratio
C6_Witness ==
    /\ hist.sel.col # 0
    /\ hist.sel.row # 0
    /\ \E j \in 1..(Len(SelOpt) - 1) : j # hist.sel.col /\ SelOpt[j] = SelOpt[hist.sel.col]
    /\ \E r \in 1..hist.sel.optFunBegin :
           /\ r # hist.sel.row
           /\ SelQualifies(r, hist.sel.col)
           /\ ~SelRatioLt(hist.sel.row, r, hist.sel.col)

\* C7: the codes are ordered NOOP < OPTIMAL < UNIQUE < MULTI < OK < PARTIAL <
\* UNBOUNDED (checked on every pair of codes before the solve starts); a | b is the larger of the two, so every | the solver made
\* returned the worse operand and the accumulated result is never better than
\* the code of a step; ok() holds exactly below PARTIAL, failed() exactly for
\* UNBOUNDED
C7_SolveResOrder ==
    /\ pc = "new" =>
           /\ Lt(NOOP, OPTIMAL) /\ Lt(OPTIMAL, UNIQUE) /\ Lt(UNIQUE, MULTI)
           /\ Lt(MULTI, OK) /\ Lt(OK, PARTIAL) /\ Lt(PARTIAL, UNBOUNDED)
           /\ \A a, b \in SolveRes :
                  /\ Or(a, b) \in {a, b}
                  /\ Ge(Or(a, b), a) /\ Ge(Or(a, b), b)
                  /\ Lt(a, b) \/ Lt(b, a) \/ a = b
           /\ \A r \in SolveRes :
                  /\ ok(r) <=> r \in {UNSOLVED, NOOP, OPTIMAL, UNIQUE, MULTI, OK}
                  /\ failed(r) <=> r = UNBOUNDED
    /\ hist.ors.out \in {hist.ors.a, hist.ors.b}
    /\ Ge(hist.ors.out, hist.ors.a) /\ Ge(hist.ors.out, hist.ors.b)
    /\ pc = "done" =>
           /\ \A k \in 1..Len(hist.saRet) : Ge(result, hist.saRet[k])
           /\ \A k \in 1..Len(hist.tiers) : Ge(result, hist.tiers[k].res)

\* a solved system whose last | had different operands and whose accumulated
\* result is worse than the code of one of its tiers
C7_Witness ==
    /\ pc = "done"
    /\ hist.ors.a # hist.ors.b
    /\ hist.ors.out = hist.ors.b
    /\ \E k \in 1..Len(hist.tiers) : Lt(hist.tiers[k].res, result)

\* the entering column of the last selection is 0 in every row and is marked
\* zeroed, and its variable is recorded as unbounded
SelColumnZeroed ==
    /\ \A r \in 1..Len(tableau) : tableau[r][hist.sel.col] = I(0)
    /\ zeroed[hist.sel.col]
    /\ Contains(unboundedVars, cols[hist.sel.col])

\* C8: when max finds no pivot row for its entering column, the column is
\* zeroed and recorded and the loop goes on; the max that zeroed reports
\* UNBOUNDED, and so do solveAll and Solver.solution() when the solve ends,
\* which it does without raising
C8_UnboundedZeroed ==
    /\ (InMax /\ hist.sel.col # 0 /\ hist.sel.row = 0) =>
           (SelColumnZeroed /\ mxRes = UNBOUNDED)
    /\ (hist.zeroedIn # {} /\ pc \in {"done", "raised"}) =>
           /\ pc = "done"
           /\ hist.saRet[1] = UNBOUNDED
           /\ result = UNBOUNDED
           /\ solution.res = UNBOUNDED

\* a simplified row with no terms left whose comparison 0 (op) rhs is false
InvalidRow(eq) ==
    eq.rhs[1] = 0 /\ eq.terms = <<>> /\ ~CondHolds(eq.cond, I(0), eq.rhs[2])

\* C9: a row that has no terms left after simplification and whose constant
\* comparison 0 (op) rhs is false is recorded by reset() without raising, and
\* after solve() the code Solver.solution() returns is PARTIAL or worse,
\* whatever solveAll returned
C9_InvalidRowsDegrade ==
    /\ (pc # "new" /\ pc # "raised") =>
           \A k \in 1..Len(hist.simplified) :
               InvalidRow(hist.simplified[k]) <=> Contains(invalidEqs, hist.simplified[k])
    /\ (pc = "done" /\ invalidEqs # <<>>) => ~ok(solution.res)

\* a solved system with a recorded invalid row whose solveAll returned a code
\* below PARTIAL
C9_Witness ==
    /\ pc = "done"
    /\ invalidEqs # <<>>
    /\ ok(hist.saRet[1])
    /\ ~ok(solution.res)

\* the exceptions of an arithmetic domain error
ArithmeticErrors == {"ZeroDivisionError", "NotANumberError", "ValueError"}

\* C10: solving raises for an arithmetic domain error only; infeasibility,
\* unboundedness (of an auxiliary objective and of the re-maximisation too)
\* and non-uniqueness end in a returned SolveRes
C10_OnlyArithmeticErrorsRaise ==
    /\ err \in {"none"} \cup ArithmeticErrors
    /\ pc = "raised" => err \in ArithmeticErrors

\* ---------------------------------------------------------------------
\* Tableau.solve on a tier with auxiliary objectives

\* the tiers committed so far that had at least one aux row
AuxTiers == {k \in 1..Len(hist.tiers) : Len(hist.tiers[k].auxMax) > 0}

\* every aux row of the tier ended at the max recorded for it
AllAtMax(t) == \A i \in 1..Len(t.auxMax) : t.auxEnd[i] = t.auxMax[i]

\* some aux row of the tier ended strictly below the max recorded for it
SomeBelowMax(t) == \E i \in 1..Len(t.auxMax) : FLt(t.auxEnd[i], t.auxMax[i])

UnclearedCols == {c \in 1..Len(cols) : IsVar(cols[c]) /\ ComputeCleared(TB)[c] = -1}

\* the value the last call of solveAll returned
LastSolveAll == hist.saRet[Len(hist.saRet)]

\* C12: when solveAll has returned and a structural column of the final
\* tableau is uncleared, the code solveAll returned is MULTI or worse.
C12_UnclearedIsMulti ==
    (pc = "done" /\ UnclearedCols # {}) => Ge(LastSolveAll, MULTI)

\* solveAll returned MULTI itself with a structural column left uncleared
C12_Witness ==
    pc = "done" /\ UnclearedCols # {} /\ LastSolveAll = MULTI

\* ---------------------------------------------------------------------
\* Solver.solution() and the rows left infeasible

\* the constraint rows whose basic variable is an artificial or partial
\* variable at a non-zero value, or a slack at a negative value
InfeasibleRows ==
    {r \in 1..Len(basic) :
        \/ IsArtificialVar(basic[r]) /\ tableau[r][Len(cols) + 1] # I(0)
        \/ basic[r][1] = "s" /\ FLt(tableau[r][Len(cols) + 1], I(0))}

\* C13: after solve(), when an artificial or partial variable is basic at a
\* non-zero value or a slack is negative, the code returned by solution() is
\* PARTIAL or worse and ok() is false for it.
C13_InfeasibleIsPartial ==
    (pc = "done" /\ InfeasibleRows # {}) =>
        /\ Ge(solution.res, PARTIAL)
        /\ ~ok(solution.res)

\* solve() accumulated an ok code, an artificial variable stayed basic at a
\* non-zero value, and solution() returned PARTIAL
C13_Witness ==
    /\ pc = "done"
    /\ ok(result)
    /\ \E r \in InfeasibleRows : IsArtificialVar(basic[r])
    /\ solution.res = PARTIAL

\* ---------------------------------------------------------------------
\* Solver.solution() and the variables the simplifier eliminated

\* the terms of the recorded substitutions whose variable has no column
MissingTerms ==
    {<<k, i>> \in (1..Len(subs)) \X (1..Len(leqs.vmax)) :
        i <= Len(subs[k][2]) /\ ~Contains(cols, VarCol(subs[k][2][i][1]))}

\* a substitution evaluated at the basic solution of the tableau: a variable
\* without a column counts with its max bound when that is finite and is
\* left out when it is not
RECURSIVE SubValueFrom(_, _)
SubValueFrom(terms, i) ==
    IF i > Len(terms) THEN I(0)
    ELSE LET v == terms[i][1]
         IN  FAdd(IF Contains(cols, VarCol(v)) THEN FMul(terms[i][2], ColValue(VarCol(v)))
                  ELSE IF isfinite(leqs.vmax[v]) THEN FMul(terms[i][2], leqs.vmax[v])
                  ELSE I(0),
                  SubValueFrom(terms, i + 1))

\* C14: solution() gives every eliminated variable the value of its recorded
\* substitution at the tableau solution, with the finite max bound standing in
\* for a variable that has no column, and returns UNBOUNDED when a variable
\* without a column has an infinite bound.
C14_SubstitutionsEvaluated ==
    pc = "done" =>
        /\ \A k \in 1..Len(subs) :
               DGet(solution.solution, subs[k][1]) = SubValueFrom(subs[k][2], 1)
        /\ (\E m \in MissingTerms : ~isfinite(leqs.vmax[subs[m[1]][2][m[2]][1]]))
               => solution.res = UNBOUNDED

\* an eliminated variable whose substitution has a term with a column at a
\* non-zero value and a term without a column that counts with its finite
\* bound, next to a substitution over a variable without a column and
\* without a bound, for which solution() returns UNBOUNDED
C14_Witness ==
    /\ pc = "done"
    /\ \E k \in 1..Len(subs) :
           /\ \E i \in 1..Len(subs[k][2]) :
                  /\ Contains(cols, VarCol(subs[k][2][i][1]))
                  /\ ColValue(VarCol(subs[k][2][i][1])) # I(0)
           /\ \E i \in 1..Len(subs[k][2]) :
                  /\ <<k, i>> \in MissingTerms
                  /\ isfinite(leqs.vmax[subs[k][2][i][1]])
           /\ DGet(solution.solution, subs[k][1]) # I(0)
    /\ \E m \in MissingTerms : ~isfinite(leqs.vmax[subs[m[1]][2][m[2]][1]])
    /\ ok(result)
    /\ solution.res = UNBOUNDED

\* ---------------------------------------------------------------------
\* Solver.apply() called twice

\* C15: a second apply() in a row returns the same (result code, solution)
\* pair as the first and leaves every throttle as the first call set it, and
\* no apply() changes the solver or the tableau or ends in an exception after
\* an earlier one returned.
C15_ApplyIdempotent ==
    /\ \A k \in 2..Len(applyRet) :
           /\ applyRet[k].res = applyRet[k - 1].res
           /\ applyRet[k].solution = applyRet[k - 1].solution
           /\ applyRet[k].throttle = applyRet[k - 1].throttle
    /\ \A k \in 1..Len(applyRet) :
           /\ applyRet[k].solver = <<eqs, subs, invalidEqs, result>>
           /\ applyRet[k].tableau = TB
    /\ applyRet # <<>> =>
           /\ pc = "done"
           /\ applyRet[Len(applyRet)].throttle = throttle

\* apply() returned twice on a system it throttled: some machine was taken
\* off the throttle 1 it started with
C15_Witness ==
    /\ Len(applyRet) >= 2
    /\ ~failed(applyRet[1].res)
    /\ \E v \in 1..Len(throttle) : throttle[v] # I(1)

\* ---------------------------------------------------------------------
\* more demand than the throttled producers can meet

\* C16: for n throttled unit-rate producers of one item pinned to a rate
\* above n, solution() returns PARTIAL after solve() and sets every producer
\* to exactly 1.
C16_OverdrivenIsPartial ==
    (pc = "done" /\ leqs \in Overdriven) =>
        /\ solution.res = PARTIAL
        /\ \A v \in 1..Len(leqs.vmax) :
               /\ DHas(solution.solution, v)
               /\ DGet(solution.solution, v) = I(1)

\* three producers asked for rate 5, solved: PARTIAL with all three at 1
C16_Witness ==
    /\ pc = "done"
    /\ leqs = PinnedProducers(3, 5)
    /\ solution.res = PARTIAL
    /\ \A v \in 1..3 : DGet(solution.solution, v) = I(1)

\* ---------------------------------------------------------------------
\* a row that only the all-zero assignment satisfies

\* every variable of the system is eliminated and the tableau has no
\* constraint row
AllEliminated ==
    /\ \A v \in 1..Len(leqs.vmax) : DHas(subs, v)
    /\ optFunBegin = 0
    /\ basic = <<>>

\* C17 as stated: for a system whose only row is all-positive <= 0, reset()
\* eliminates every variable and builds a tableau without constraint rows,
\* and after solve() solution() returns NOOP or OPTIMAL with every variable
\* at 0.
C17_ZeroRowNoopOrOptimal ==
    leqs \in ZeroRows =>
        /\ pc \notin {"new", "raised"} => AllEliminated
        /\ pc = "done" =>
               /\ solution.res \in {NOOP, OPTIMAL}
               /\ \A v \in 1..Len(leqs.vmax) :
                      DHas(solution.solution, v) /\ DGet(solution.solution, v) = I(0)

\* C17 amended: the same, with the code NOOP when the system has no
\* objective and UNIQUE when it has one (every tier has aux rows, which are
\* at their maximum 0).
C17_ZeroRowAllZero ==
    leqs \in ZeroRows =>
        /\ pc # "raised"
        /\ pc # "new" => AllEliminated
        /\ pc = "done" =>
               /\ solution.res =
                      (IF leqs.priorities = <<>> /\ leqs.inputs = <<>> THEN NOOP ELSE UNIQUE)
               /\ \A v \in 1..Len(leqs.vmax) :
                      DHas(solution.solution, v) /\ DGet(solution.solution, v) = I(0)

\* a zero-row system without a goal, solved: NOOP, both variables 0
C17_Witness ==
    /\ leqs \in ZeroRows
    /\ pc = "done"
    /\ AllEliminated
    /\ solution.res = NOOP
    /\ \A v \in 1..2 : DGet(solution.solution, v) = I(0)

\* ---------------------------------------------------------------------
\* fracs.py: the values frac, div, +, - and * return

\* the last call raised
Raised == fracRet.value \in {NotANumberError, ZeroDivisionError}

\* the last call was made on two finite rationals and returned a value
ReturnedOnFinite ==
    /\ fracRet.op # "none"
    /\ fracArgs \in Finite \X Finite
    /\ ~Raised

\* an int, or a Frac in lowest terms with a denominator above 1
Reduced(v) == v[2] >= 1 /\ gcd(v[1], v[2]) = 1

\* the last call divided by the int 0
DividedByZero == fracRet.op \in {"frac", "div"} /\ fracArgs[2] = I(0)

\* C18 as stated: every value frac, div, +, - and * return on finite
\* rationals is in lowest terms with a positive denominator, and is an int
\* when that denominator is 1.
C18_ResultsReduced ==
    ReturnedOnFinite => Reduced(fracRet.value)

\* C18 amended: the same for every call but a division by zero, which
\* returns no finite value at all.
C18_FiniteResultsReduced ==
    ReturnedOnFinite =>
        IF DividedByZero THEN ~isfinite(fracRet.value) ELSE Reduced(fracRet.value)

\* 1/4 + 1/4 returned 1/2, and not 2/4 or 8/16
C18_Witness ==
    /\ fracRet.op = "+"
    /\ fracArgs = << <<1, 4>>, <<1, 4>> >>
    /\ fracRet.value = <<1, 2>>

\* ---------------------------------------------------------------------
\* fracs.py: arithmetic on the infinities

\* what an undefined result becomes under the allow-NaN switch
NaNOrRaise == IF cfg.allow_nans THEN NaN ELSE NotANumberError

\* C19: a finite value plus an infinity, in either order, is that infinity;
\* Inf - Inf (and -Inf - -Inf) and 0 * an infinity, in either order, are NaN
\* when the allow-NaN switch is on and raise NotANumberError when it is off.
C19_InfinityArithmetic ==
    /\ fracRet.op = "+" =>
           \A inf \in {Inf, NegInf} :
               /\ (fracArgs[1] = inf /\ fracArgs[2] \in Finite) => fracRet.value = inf
               /\ (fracArgs[1] \in Finite /\ fracArgs[2] = inf) => fracRet.value = inf
    /\ (fracRet.op = "-" /\ fracArgs \in {<<Inf, Inf>>, <<NegInf, NegInf>>}) =>
           fracRet.value = NaNOrRaise
    /\ (fracRet.op = "*" /\ fracArgs \in ({I(0)} \X {Inf, NegInf}) \cup ({Inf, NegInf} \X {I(0)})) =>
           fracRet.value = NaNOrRaise

\* Inf - Inf raised NotANumberError with the allow-NaN switch off
C19_Witness ==
    /\ fracRet.op = "-"
    /\ fracArgs = <<Inf, Inf>>
    /\ ~cfg.allow_nans
    /\ fracRet.value = NotANumberError

\* ---------------------------------------------------------------------
\* fracs.py: division by the int 0

\* C20: div(a, 0) raises for every a when neither switch is on; under
\* assume_positive_zero it returns Inf for a positive a, -Inf for a negative
\* one and NaN for zero; it never returns a finite value, and never NaN
\* while allow_nans is off.
C20_DivByZeroFollowsPolicy ==
    (fracRet.op = "div" /\ fracArgs[2] = I(0)) =>
        LET a == fracArgs[1]
        IN  /\ (~cfg.assume_positive_zero /\ ~cfg.allow_nans) => Raised
            /\ (cfg.assume_positive_zero /\ a # NaN /\ a[1] > 0) => fracRet.value = Inf
            /\ (cfg.assume_positive_zero /\ a # NaN /\ a[1] < 0) => fracRet.value = NegInf
            /\ (cfg.assume_positive_zero /\ cfg.allow_nans /\ a = I(0)) => fracRet.value = NaN
            /\ Raised \/ ~isfinite(fracRet.value)
            /\ ~cfg.allow_nans => fracRet.value # NaN

\* ---------------------------------------------------------------------
\* the ambient configuration and the solver

\* the tableau and the exception of the solver in the current state
TableauNow == [TB EXCEPT !.err = err]

\* reset() under the current configuration leaves the current state
ResetAgrees(st, objectives, tb, e) ==
    /\ solverVars = <<st.eqs, st.subs, st.invalidEqs, st.result>>
    /\ err = e
    /\ e = "none" => TB = tb /\ pending = objectives

ResetAgreesWith(st, objectives, tb) ==
    ResetAgrees(st, objectives, tb, ResetErr(st, objectives, tb))

ResetAgreesFrom(st) ==
    ResetAgreesWith(st, Objectives(leqs, st.subs), NewTableau(st.eqs, leqs.vmax))

\* the step of max on tb under the current configuration leaves the
\* current state: the same entering column, the same row, the same pivot
PivotAgrees(tb, col, row, pivoted) ==
    /\ col # 0
    /\ IF pivoted THEN row # 0 /\ TableauNow = clear(tb, row, col)
       ELSE row = 0

MaxAgrees(tb, col, pivoted) == PivotAgrees(tb, col, bestRow(tb, col), pivoted)

\* the current state is what the solver's last step computes from the same
\* inputs under the configuration of the current state
LastCallAgrees ==
    CASE lastCall = <<>> -> TRUE
      [] lastCall[1] = "reset" -> ResetAgreesFrom(ResetRows(leqs))
      [] lastCall[1] = "addObjective" ->
            TableauNow = addPendingObjective(lastCall[2], lastCall[3])
      [] lastCall[1] = "clear" ->
            MaxAgrees(lastCall[2], EnteringCol(lastCall[2].tableau[lastCall[3]]), TRUE)
      [] lastCall[1] = "zeroCol" ->
            MaxAgrees(lastCall[2], EnteringCol(lastCall[2].tableau[lastCall[3]]), FALSE)

BasicColumnOf(r) ==
    /\ Contains(cols, basic[r])
    /\ tableau[r][Index(cols, basic[r])] = I(1)
    /\ \A r2 \in 1..Len(tableau) : r2 # r => tableau[r2][Index(cols, basic[r])] = I(0)

\* C22: in every state of the tableau after its construction (after every
\* pivot, zeroCol, addObjective and column deletion) the basic column of
\* each constraint row has 1 in that row and 0 in every other row, the
\* objective rows included, and normalize is never asked to pivot on 0.
C22_BasisCanonical ==
    /\ pc \notin {"new", "raised"} => \A r \in 1..Len(basic) : BasicColumnOf(r)
    /\ err # "ZeroDivisionError"

\* a solve that pivoted, deleted its artificial columns and added a later
\* objective, and ended with a machine in the basis of a tableau of two or
\* more rows
C22_Witness ==
    /\ pc = "done"
    /\ hist.pivoted
    /\ Len(hist.tiers) >= 2
    /\ Len(basic) >= 2
    /\ \E r \in 1..Len(basic) : IsVar(basic[r])
    /\ \E i \in 1..Len(eqs) : eqs[i].cond = "EQ"
    /\ \A c \in 1..Len(cols) : ~IsArtificialVar(cols[c])

\* ---------------------------------------------------------------------
\* the columns zeroed by a committed tier

\* column c is locked out: zeroed, 0 in every row and not in the basis
LockedOut(c) ==
    /\ zeroed[c]
    /\ \A r \in 1..Len(tableau) : tableau[r][c] = I(0)
    /\ ~Contains(basic, cols[c])

\* the states of a solve after reset()
InSolve == pc \notin {"new", "raised"}

\* C23 as stated: a machine column that was at zero in the objective row of
\* a committed tier, its variable at 0, never enters the basis in a later
\* tier.
C23_ZeroEntryLockedOut ==
    InSolve => \A t \in 1..Len(hist.tiers) : \A c \in hist.tiers[t].freeCols :
                   ~Contains(basic, cols[c])

\* C23: a machine column with a non-zero entry in the objective row of a
\* committed tier is zeroed by the commit and stays locked out: it is 0 in
\* every row of every later tier, also in the row of an objective that
\* names it, and it never enters the basis again, so solution() gives its
\* variable the value 0.
C23_NonZeroEntryLockedOut ==
    InSolve =>
        /\ \A t \in 1..Len(hist.tiers) : \A c \in hist.tiers[t].zeroCols : LockedOut(c)
        /\ \A c \in 1..Len(cols) :
              IsVar(cols[c]) /\ zeroed[c] => DGet(TableauSolution(TB).res, cols[c][2]) = I(0)

\* a first tier zeroed a column, a later tier named it and pivoted
C23_Witness ==
    /\ pc = "done"
    /\ \E t1 \in 1..Len(hist.tiers) : \E t2 \in (t1 + 1)..Len(hist.tiers) :
          /\ hist.pivotedAfter >= t1
          /\ hist.tiers[t2].note[1] # "None"
          /\ \E c \in hist.tiers[t1].zeroCols : \E k \in 1..Len(hist.tiers[t2].terms) :
                 hist.tiers[t2].terms[k][1] = cols[c][2]

\* ---------------------------------------------------------------------
\* the rounds of the simplifier

\* equation eq has right-hand side 0 and var as its single positive term
\* among other terms
Proposes(eq, var) ==
    /\ eq.rhs[2] = I(0)
    /\ eq.cond = EQ
    /\ Len(eq.terms) > 1
    /\ Len(posVars(eq.terms)) = 1
    /\ posVars(eq.terms)[1][1] = var

Proposers(es, var) == {k \in 1..Len(es) : Proposes(es[k], var)}

\* a row with right-hand side 0 whose terms all have one sign forces var to 0
ZeroForced(es, var) ==
    \E k \in 1..Len(es) :
        /\ es[k].rhs[2] = I(0)
        /\ TIdx(es[k].terms, var) # 0
        /\ \/ Len(posVars(es[k].terms)) = Len(es[k].terms) /\ es[k].cond \in {EQ, LE}
           \/ Len(posVars(es[k].terms)) = 0 /\ es[k].cond \in {EQ, GE}

\* var has been eliminated: it is the right-hand side of a rewritten row
Eliminated(es, var) == \E k \in 1..Len(es) : es[k].rhs = <<var, I(1)>>

\* one round: es at its start, the candidates found, st after the round
RoundOk(es, candidates, st, var) ==
    /\ DHas(candidates, var) /\ DGet(candidates, var) # ZERO =>
          Proposers(es, var) = {DGet(candidates, var)}
    /\ Cardinality(Proposers(es, var)) >= 2 /\ ~ZeroForced(es, var) =>
          /\ ~DHas(candidates, var)
          /\ st.err = "none" => ~Eliminated(st.eqs, var)
    /\ Cardinality(Proposers(es, var)) >= 2 /\ ZeroForced(es, var) =>
          DGet(candidates, var) = ZERO

RECURSIVE RoundsOkFrom(_, _)
RoundsOkNext(st, candidates, after, n) ==
    /\ \A var \in 1..n : RoundOk(st.eqs, candidates, after, var)
    /\ RoundsOkFrom(after, n)

RoundsOkWith(st, candidates, n) ==
    candidates = <<>> \/ RoundsOkNext(st, candidates, EliminateFrom(st, candidates, 1), n)

RoundsOkFrom(st, n) == st.err # "none" \/ RoundsOkWith(st, Candidates(st.eqs), n)

\* C24: in each round of _simplify a variable is eliminated by substitution
\* only if exactly one equality with right-hand side 0 has it as its single
\* positive term; a variable that two or more equations propose is not a
\* candidate of that round and is not eliminated in it, unless a
\* zero-forcing row sets it to 0.
C24_UniqueSubstitutionOnly ==
    lastCall = <<"reset">> =>
        RoundsOkFrom([eqs |-> InitialEquations(leqs), err |-> "none"], Len(leqs.vmax))

\* reset() simplified a system in which two rows proposed the same variable
\* and another variable was substituted
C24_Witness ==
    /\ lastCall = <<"reset">>
    /\ pc = "solveAll"
    /\ \E var \in 1..Len(leqs.vmax) :
          /\ Cardinality(Proposers(InitialEquations(leqs), var)) >= 2
          /\ ~ZeroForced(InitialEquations(leqs), var)
    /\ \E i \in 1..Len(subs) : subs[i][2] # <<>>

\* ---------------------------------------------------------------------
\* the result of the simplifier

\* _simplify returned, with rows in which the scan finds no candidate
AtFixedPoint(st) == st.err = "none" /\ Candidates(st.eqs) = <<>>

\* C25: _simplify returns without raising on every system, also when the
\* candidates of one round change each other's rows before they are
\* applied, and on return no row with right-hand side 0 forces a remaining
\* variable to zero and no remaining variable has a unique substitution
\* candidate.
C25_SimplifyReachesFixedPoint ==
    lastCall = <<"reset">> => AtFixedPoint(_simplify(leqs))

\* ---------------------------------------------------------------------
\* the order of the objectives

\* the kind of a committed tier: 0 the artificials of the rows with
\* right-hand side 0, 1 the partial ones, 2 a priority level, then the
\* objectives reset() adds by itself
TierClass(t) ==
    CASE t.note[1] = "None" ->
             IF \A k \in 1..Len(t.terms) : t.terms[k][1][1] = "a" THEN 0 ELSE 1
      [] t.note[1] \in {"max", "min"} -> 2
      [] t.note[1] = "also-output" -> 3
      [] t.note[1] = "ignored-inputs" -> 4
      [] t.note[1] = "inputs" -> 5

\* tier t1 belongs before tier t2
TierBefore(t1, t2) ==
    \/ TierClass(t1) < TierClass(t2)
    \/ /\ TierClass(t1) = 2
       /\ TierClass(t2) = 2
       /\ \/ t1.note[2] > t2.note[2]
          \/ t1.note[2] = t2.note[2] /\ t1.note[1] = "max" /\ t2.note[1] = "min"

\* the objective rows in the tableau are one tier: a main row, then aux rows
OneTierInTableau ==
    /\ Len(optFunInfo) >= 1
    /\ optFunInfo[1].label = "max"
    /\ \A k \in 2..Len(optFunInfo) : optFunInfo[k].label = "aux"

RECURSIVE SumValuesFrom(_, _, _)
SumValuesFrom(vals, acc, i) ==
    IF i > Len(vals) THEN acc ELSE SumValuesFrom(vals, FAdd(acc, vals[i][2]), i + 1)

\* the states of the first solve after the phase-1 objectives are committed
AfterPhase1 == InSolve /\ hist.solves >= 1 /\ (saLoop = 2 \/ pc = "done") /\ pc # "solveAll"

\* C27 as stated: once the phase-1 objectives are committed no artificial
\* or partial variable takes a larger value than it had then.
C27_NoArtificialGrows ==
    AfterPhase1 =>
        \A i \in 1..Len(ArtificialValues(TB)) :
            /\ DHas(hist.phase1, ArtificialValues(TB)[i][1])
            /\ FLe(ArtificialValues(TB)[i][2], DGet(hist.phase1, ArtificialValues(TB)[i][1]))

\* C27: once the phase-1 objectives are committed the sum of the values of
\* the artificial and partial variables stays at the minimum phase 1
\* reached, in every state of every later tier and in the final solution;
\* when that minimum is 0 every one of them stays at 0.
C27_ArtificialSumKept ==
    AfterPhase1 =>
        /\ SumValuesFrom(ArtificialValues(TB), I(0), 1) = SumValuesFrom(hist.phase1, I(0), 1)
        /\ \A i \in 1..Len(ArtificialValues(TB)) : FGe(ArtificialValues(TB)[i][2], I(0))

\* an infeasible system (phase 1 ended above 0) on which a later tier
\* pivoted, solved to the end
C27_Witness ==
    /\ pc = "done"
    /\ FGt(SumValuesFrom(hist.phase1, I(0), 1), I(0))
    /\ hist.pivotedAfter >= 1
    /\ \E i \in 1..Len(hist.tiers) : TierClass(hist.tiers[i]) >= 2
    /\ hist.pivotedAfter >= Cardinality({i \in 1..Len(hist.tiers) : TierClass(hist.tiers[i]) < 2})


(***************************************************************************)
(* C28: the simplifier preserves the solution set.  The assignments give   *)
(* every variable a value of 0, 1/2, 1, .. within its Var.max.             *)
(***************************************************************************)
AssignedValues == {I(n) : n \in 0..(MaxCoef + MaxRate)} \cup {<<1, 2>>}

Assignments ==
    {a \in [1..Len(leqs.vmax) -> AssignedValues] :
        \A v \in 1..Len(leqs.vmax) : FLe(a[v], leqs.vmax[v])}

\* the rows of leqs.eqs hold under a
SatisfiesOriginal(a) ==
    \A k \in 1..Len(leqs.eqs) :
        CondHolds(leqs.eqs[k].cond, TermsApply(TermsOf(leqs.eqs[k].terms), a), leqs.eqs[k].rate)

\* the rows kept by reset(), its substitutions and zero-forcings hold under a
SatisfiesSimplified(a) ==
    /\ invalidEqs = <<>>
    /\ \A k \in 1..Len(eqs) : CondHolds(eqs[k].cond, TermsApply(eqs[k].terms, a), eqs[k].rate)
    /\ \A s \in 1..Len(subs) : a[subs[s][1]] = TermsApply(subs[s][2], a)

AfterReset == lastCall = <<"reset">> /\ err = "none"

\* C28: after Solver.reset() an assignment of non-negative values satisfies
\* the original rows exactly if it satisfies the kept rows, the zero-forcings
\* and the substitutions, and no substitution has a negative coefficient
C28_SimplifyKeepsSolutions ==
    AfterReset =>
        /\ \A a \in Assignments : SatisfiesOriginal(a) <=> SatisfiesSimplified(a)
        /\ \A s \in 1..Len(subs) : \A i \in 1..Len(subs[s][2]) : FGe(subs[s][2][i][2], I(0))


(***************************************************************************)
(* C29: the right-hand sides of the constraint rows stay non-negative.     *)
(***************************************************************************)
\* the right-hand side of row r of the tableau
Rhs(r) == tableau[r][Len(cols) + 1]

\* the last pivot had a choice: a second row with a positive entry in the
\* entering column had the larger ratio
RatioTestChose ==
    /\ hist.pivoted
    /\ hist.sel.row # 0
    /\ \E r \in 1..hist.sel.optFunBegin :
          LET T == hist.sel.tableau
              col == hist.sel.col
              n == Len(T[r])
          IN  /\ r # hist.sel.row
              /\ FGt(T[r][col], I(0))
              /\ FGt(div(T[r][n], T[r][col]), div(T[hist.sel.row][n], T[hist.sel.row][col]))

\* C29: in every state of the tableau (after construction, after every pivot,
\* zeroCol and column deletion) the right-hand side of every constraint row
\* is >= 0, and Tableau.solution() reports no negative value for a
\* structural variable and no slack variable
C29_RhsNonNegative ==
    InSolve =>
        /\ \A r \in 1..optFunBegin : FGe(Rhs(r), I(0))
        /\ \A i \in 1..Len(TableauSolution(TB).res) : FGe(TableauSolution(TB).res[i][2], I(0))
        /\ \A i \in 1..Len(TableauSolution(TB).other) : TableauSolution(TB).other[i][1][1] # "s"

\* a pivot chosen by the ratio test among two rows, on a system that has a
\* row with a negative rate
C29_Witness ==
    /\ InSolve
    /\ RatioTestChose
    /\ \E r \in 1..optFunBegin : FGt(Rhs(r), I(0))
    /\ \E k \in 1..Len(leqs.eqs) : FLt(leqs.eqs[k].rate, I(0))


(***************************************************************************)
(* C30: the list returned by Tableau.cleared() where it is read.           *)
(***************************************************************************)
\* the tableau addObjective was called on, if the last step called it
ReadByAddObjective == lastCall # <<>> /\ lastCall[1] = "addObjective"

\* solveAll has returned: clearedCache is the list its MULTI test has read
ReadBySolveAll == pc = "done" /\ err = "none"

\* the list a recomputation gives has a column that is not cleared
Uncleared(tb) == \E c \in 1..Len(tb.cols) : ComputeCleared(tb)[c] = -1

\* C30: the list cleared() returns to addObjective and to the MULTI test of
\* solveAll is the one a recomputation from the current tableau gives, and
\* solveAll returns MULTI only if that recomputation has an uncleared column
C30_ClearedIsCurrent ==
    /\ ReadByAddObjective => cleared(lastCall[2]) = ComputeCleared(lastCall[2])
    /\ ReadBySolveAll =>
          /\ clearedCache = ComputeCleared(TB)
          /\ hist.saRet[Len(hist.saRet)] = MULTI => Uncleared(TB)

====
